---------------------------- MODULE Spec2Model ----------------------------
(***************************************************************************)
(* timecard: the weekly report of a time-tracking utility.                 *)
(*                                                                         *)
(* Two generations of the report are modelled side by side:                *)
(*   "cli"     src/src/cli/bin/main.rs, an HTTP client of the warp server  *)
(*             (src/src/api.rs) whose storage is src/src/db.rs;            *)
(*   "backend" src/backend/src/bin/cli.rs on top of the rusqlite storage   *)
(*             of src/backend/src/db.rs.                                   *)
(*                                                                         *)
(* Text (timestamps, memos, table cells) is a sequence of byte codes, so   *)
(* that SQLite's text comparison, the byte chunking of memos and the       *)
(* formatting of numbers are computed as the code computes them.  Project  *)
(* codes and week-day labels are only ever compared for equality and are   *)
(* TLA+ strings.  A calendar date is its day number, counted from          *)
(* 1970-01-01.  An f64 is modelled bit-exactly (see the F64 section).      *)
(***************************************************************************)
EXTENDS Integers, Sequences, FiniteSets, TLC

(***************************************************************************)
(* Byte codes of the characters the program writes or compares.            *)
(***************************************************************************)
ChNewline == 10
ChSpace   == 32
ChPlus    == 43
ChMinus   == 45
ChDot     == 46
ChZero    == 48
ChColon   == 58
ChSemi    == 59

IsDigit(b) == b >= ChZero /\ b <= ChZero + 9

RECURSIVE Digits(_)
\* Decimal digits of a natural number, as "{}" prints it.
Digits(n) ==
    IF n < 10 THEN << ChZero + n >>
    ELSE Append(Digits(n \div 10), ChZero + (n % 10))

RECURSIVE ZeroPad(_, _)
\* "{:0w}": left-padded with zeros to at least w characters.
ZeroPad(s, w) == IF Len(s) >= w THEN s ELSE ZeroPad(<< ChZero >> \o s, w)

Pad2(n) == ZeroPad(Digits(n), 2)
Pad4(n) == ZeroPad(Digits(n), 4)

RECURSIVE TextLess(_, _)
\* SQLite's BINARY collation of two TEXT values: memcmp, then the shorter first.
TextLess(a, b) ==
    IF b = << >> THEN FALSE
    ELSE IF a = << >> THEN TRUE
    ELSE IF Head(a) # Head(b) THEN Head(a) < Head(b)
    ELSE TextLess(Tail(a), Tail(b))

TextLeq(a, b) == a = b \/ TextLess(a, b)

(***************************************************************************)
(* Calendar (chrono's Datelike on a date).                                 *)
(***************************************************************************)
\* year, month and day of a day number (proleptic Gregorian calendar).
CivilFromDays(z) ==
    LET z1  == z + 719468
        era == z1 \div 146097
        doe == z1 - era * 146097
        yoe == (doe - doe \div 1460 + doe \div 36524 - doe \div 146096) \div 365
        doy == doe - (365 * yoe + yoe \div 4 - yoe \div 100)
        mp  == (5 * doy + 2) \div 153
        d   == doy - (153 * mp + 2) \div 5 + 1
        m   == IF mp < 10 THEN mp + 3 ELSE mp - 9
        y   == yoe + era * 400 + (IF m <= 2 THEN 1 ELSE 0)
    IN  [year |-> y, month |-> m, day |-> d]

\* The day number of a calendar date, or -1 when there is no such date.
IsLeap(y) == (y % 4 = 0 /\ y % 100 # 0) \/ y % 400 = 0

DaysInMonth(y, m) ==
    IF m = 2 THEN (IF IsLeap(y) THEN 29 ELSE 28)
    ELSE IF m \in {4, 6, 9, 11} THEN 30 ELSE 31

DaysFromCivil(y, m, d) ==
    LET y1  == IF m <= 2 THEN y - 1 ELSE y
        era == y1 \div 400
        yoe == y1 - era * 400
        mp  == IF m > 2 THEN m - 3 ELSE m + 9
        doy == (153 * mp + 2) \div 5 + d - 1
        doe == yoe * 365 + yoe \div 4 - yoe \div 100 + doy
    IN  era * 146097 + doe - 719468

WeekdayLabels == << "Sun", "Mon", "Tue", "Wed", "Thu", "Fri", "Sat" >>

\* date.weekday().to_string(): 1970-01-01 was a Thursday.
weekday(date) == WeekdayLabels[((date + 4) % 7) + 1]

\* WEEKDAYS with the week beginning on Monday.
WEEKDAYS_MondayFirst ==
    [l \in {"Sun", "Mon", "Tue", "Wed", "Thu", "Fri", "Sat"} |->
        CHOOSE i \in 0..6 : WeekdayLabels[((i + 1) % 7) + 1] = l]

\* lazy_static WEEKDAYS: week-day label -> days since Sunday.
WEEKDAYS == [l \in {"Sun", "Mon", "Tue", "Wed", "Thu", "Fri", "Sat"} |->
               CHOOSE i \in 0..6 : WeekdayLabels[i + 1] = l]


(***************************************************************************)
(* Natural numbers of any size: little-endian limbs in base 2^16, without  *)
(* high zero limbs (zero is the empty sequence).  They carry the 53-bit    *)
(* significands that TLC's own integers cannot.                            *)
(***************************************************************************)
LimbBase == 65536
LimbBits == 16

RECURSIVE Norm(_)
Norm(a) ==
    IF a = << >> THEN a
    ELSE IF a[Len(a)] = 0 THEN Norm(SubSeq(a, 1, Len(a) - 1)) ELSE a

RECURSIVE BigFromNat(_)
BigFromNat(n) ==
    IF n = 0 THEN << >> ELSE << n % LimbBase >> \o BigFromNat(n \div LimbBase)

RECURSIVE AddC(_, _, _)
AddC(a, b, c) ==
    IF a = << >> /\ b = << >>
    THEN (IF c = 0 THEN << >> ELSE << c >>)
    ELSE LET x == (IF a = << >> THEN 0 ELSE Head(a))
                  + (IF b = << >> THEN 0 ELSE Head(b)) + c
         IN  << x % LimbBase >>
             \o AddC(IF a = << >> THEN a ELSE Tail(a),
                     IF b = << >> THEN b ELSE Tail(b), x \div LimbBase)

BigAdd(a, b) == AddC(a, b, 0)

RECURSIVE SubB(_, _, _)
\* a - b - borrow for a >= b + borrow (not normalised).
SubB(a, b, w) ==
    IF a = << >> THEN << >>
    ELSE LET x == Head(a) - (IF b = << >> THEN 0 ELSE Head(b)) - w
         IN  << IF x < 0 THEN x + LimbBase ELSE x >>
             \o SubB(Tail(a), IF b = << >> THEN b ELSE Tail(b),
                     IF x < 0 THEN 1 ELSE 0)

BigSub(a, b) == Norm(SubB(a, b, 0))

RECURSIVE CmpFrom(_, _, _)
CmpFrom(a, b, i) ==
    IF i = 0 THEN 0
    ELSE IF a[i] # b[i] THEN (IF a[i] < b[i] THEN -1 ELSE 1)
    ELSE CmpFrom(a, b, i - 1)

\* -1, 0 or 1 as a < b, a = b or a > b.
BigCmp(a, b) ==
    IF Len(a) # Len(b) THEN (IF Len(a) < Len(b) THEN -1 ELSE 1)
    ELSE CmpFrom(a, b, Len(a))

RECURSIVE MulC(_, _, _)
MulC(a, k, c) ==
    IF a = << >> THEN BigFromNat(c)
    ELSE LET x == Head(a) * k + c
         IN  << x % LimbBase >> \o MulC(Tail(a), k, x \div LimbBase)

\* a * k for a small k (k <= 2^15).
BigMulSmall(a, k) == IF k = 0 THEN << >> ELSE MulC(a, k, 0)

RECURSIVE DivFrom(_, _, _, _)
\* Long division of the limbs a[1..i] by a small k, high limb first; r is the
\* remainder carried in.  The result is <<quotient limbs, remainder>>.
DivFrom(a, k, i, r) ==
    IF i = 0 THEN << << >>, r >>
    ELSE LET x    == r * LimbBase + a[i]
             rest == DivFrom(a, k, i - 1, x % k)
         IN  << Append(rest[1], x \div k), rest[2] >>

BigDivSmall(a, k) == Norm(DivFrom(a, k, Len(a), 0)[1])
BigModSmall(a, k) == DivFrom(a, k, Len(a), 0)[2]

RECURSIVE IntPow2(_)
IntPow2(n) == IF n = 0 THEN 1 ELSE 2 * IntPow2(n - 1)

RECURSIVE IntBitLen(_)
IntBitLen(n) == IF n = 0 THEN 0 ELSE 1 + IntBitLen(n \div 2)

BitLen(a) ==
    IF a = << >> THEN 0 ELSE (Len(a) - 1) * LimbBits + IntBitLen(a[Len(a)])

Zeros(n) == [i \in 1..n |-> 0]

ShiftLeft(a, n) ==
    IF a = << >> THEN a
    ELSE Zeros(n \div LimbBits) \o BigMulSmall(a, IntPow2(n % LimbBits))

ShiftRight(a, n) ==
    IF n \div LimbBits >= Len(a) THEN << >>
    ELSE BigDivSmall(SubSeq(a, n \div LimbBits + 1, Len(a)), IntPow2(n % LimbBits))

BigPow2(n) == ShiftLeft(<< 1 >>, n)

IsOdd(a) == a # << >> /\ a[1] % 2 = 1

(***************************************************************************)
(* f64.  A value is [neg, mag]: the sign and the magnitude in units of     *)
(* 2^-FracBits, a natural number with at most 53 significant bits.  Every   *)
(* f64 the report computes (a whole number of minutes divided by 60.0, and *)
(* sums of such) is such a multiple, so the arithmetic below is exactly    *)
(* IEEE 754 binary64 with round-to-nearest-even.                           *)
(***************************************************************************)
FracBits == 64
MantBits == 53

F64Zero == [neg |-> FALSE, mag |-> << >>]

\* Round a magnitude to 53 significant bits, ties to even; `sticky` says that
\* the exact value lies strictly above mag (a remainder was cut off below it).
RoundMag(mag, sticky) ==
    LET l == BitLen(mag) IN
    IF l <= MantBits THEN mag
    ELSE LET d    == l - MantBits
             q    == ShiftRight(mag, d)
             rem  == BigSub(mag, ShiftLeft(q, d))
             c    == BigCmp(rem, BigPow2(d - 1))
             up   == c > 0 \/ (c = 0 /\ (sticky \/ IsOdd(q)))
         IN  ShiftLeft(IF up THEN BigAdd(q, << 1 >>) ELSE q, d)

\* (n as f64) / 60.0 for an integer n of minutes.
F64Div60(n) ==
    LET a   == IF n < 0 THEN -n ELSE n
        num == ShiftLeft(BigFromNat(a), FracBits)
    IN  IF n = 0 THEN F64Zero
        ELSE [neg |-> n < 0,
              mag |-> RoundMag(BigDivSmall(num, 60), BigModSmall(num, 60) # 0)]

\* x + y.
F64Add(x, y) ==
    IF x.neg = y.neg
    THEN [neg |-> x.neg, mag |-> RoundMag(BigAdd(x.mag, y.mag), FALSE)]
    ELSE LET c == BigCmp(x.mag, y.mag) IN
         IF c = 0 THEN F64Zero
         ELSE IF c > 0
         THEN [neg |-> x.neg, mag |-> RoundMag(BigSub(x.mag, y.mag), FALSE)]
         ELSE [neg |-> y.neg, mag |-> RoundMag(BigSub(y.mag, x.mag), FALSE)]

\* x > 0.0
F64Positive(x) == ~x.neg /\ x.mag # << >>

(***************************************************************************)
(* f64's Display (`value.to_string()`): the shortest decimal digits that   *)
(* read back as the same f64, closest to it, without exponent and without  *)
(* a fraction when the value is a whole number.  The whole part is printed  *)
(* in full; the digits of the fraction are generated one by one until the  *)
(* decimal printed so far lies within the rounding interval of the value.  *)
(***************************************************************************)
RECURSIVE RoundUpDigits(_)
\* Add one to the last digit, carrying to the left.
RoundUpDigits(ds) ==
    IF ds = << >> THEN << >>
    ELSE IF ds[Len(ds)] = ChZero + 9
    THEN Append(RoundUpDigits(SubSeq(ds, 1, Len(ds) - 1)), ChZero)
    ELSE [ds EXCEPT ![Len(ds)] = @ + 1]

RECURSIVE FracDigits(_, _, _, _, _, _)
\* r / scale is the part of the value not yet printed, plus / scale and
\* minus / scale the distances to the ends of the rounding interval, all three
\* scaled by ten for every digit that `ds` holds.
FracDigits(r, scale, plus, minus, inclusive, ds) ==
    LET r10  == BigMulSmall(r, 10)
        q    == ShiftRight(r10, BitLen(scale) - 1)
        dig  == IF q = << >> THEN 0 ELSE q[1]
        mant == BigSub(r10, BigMulSmall(scale, dig))
        p10  == BigMulSmall(plus, 10)
        m10  == BigMulSmall(minus, 10)
        down == IF inclusive THEN BigCmp(mant, m10) <= 0 ELSE BigCmp(mant, m10) < 0
        up   == IF inclusive THEN BigCmp(scale, BigAdd(mant, p10)) <= 0
                ELSE BigCmp(scale, BigAdd(mant, p10)) < 0
        out  == Append(ds, ChZero + dig)
    IN  IF ~down /\ ~up THEN FracDigits(mant, scale, p10, m10, inclusive, out)
        ELSE IF up /\ (~down \/ BigCmp(BigMulSmall(mant, 2), scale) >= 0)
        THEN RoundUpDigits(out)
        ELSE out

F64ToString(x) ==
    LET l     == BitLen(x.mag)
        whole == ShiftRight(x.mag, FracBits)
        frac  == Norm(SubSeq(x.mag, 1, IF Len(x.mag) < FracBits \div LimbBits THEN Len(x.mag)
                                       ELSE FracBits \div LimbBits))
        \* scale everything so that a quarter of an ulp is a whole number
        sh    == IF l >= MantBits + 2 THEN 0 ELSE MantBits + 2 - l
        half  == BigPow2(l - MantBits - 1 + sh)
        \* the significand is 2^52: the f64 below is half as far away
        pow2  == x.mag = BigPow2(l - 1)
        odd   == l >= MantBits /\ IsOdd(ShiftRight(x.mag, l - MantBits))
        sign  == IF x.neg THEN << ChMinus >> ELSE << >>
        int   == IF whole = << >> THEN 0 ELSE whole[1]
    IN  IF frac = << >> THEN sign \o Digits(int)
        ELSE sign \o Digits(int) \o << ChDot >>
             \o FracDigits(ShiftLeft(frac, sh), BigPow2(FracBits + sh), half,
                           IF pow2 THEN BigPow2(l - MantBits - 2 + sh) ELSE half,
                           ~odd, << >>)

(***************************************************************************)
(* Timestamps and dates as text.                                           *)
(***************************************************************************)
\* format!("{}-{:02}-{:02} {:02}:{:02}:{:02}", year, month, day, hour, minute, second)
FormatDateTime(date, hour, minute, second) ==
    LET c == CivilFromDays(date) IN
    Digits(c.year) \o << ChMinus >> \o Pad2(c.month) \o << ChMinus >> \o Pad2(c.day)
    \o << ChSpace >> \o Pad2(hour) \o << ChColon >> \o Pad2(minute)
    \o << ChColon >> \o Pad2(second)

entry_time_to_full_date(date, hour, minute) == FormatDateTime(date, hour, minute, 0)

\* Display of a NaiveDate: "{:04}-{:02}-{:02}".
NaiveDateToString(date) ==
    LET c == CivilFromDays(date) IN
    Pad4(c.year) \o << ChMinus >> \o Pad2(c.month) \o << ChMinus >> \o Pad2(c.day)

\* Display of a Date<Local>: the local date followed by the UTC offset,
\* "+HH:MM" or "-HH:MM" (tz is the offset in minutes east of UTC).
LocalDateToString(date, tz) ==
    LET a == IF tz < 0 THEN -tz ELSE tz IN
    NaiveDateToString(date) \o << IF tz < 0 THEN ChMinus ELSE ChPlus >>
    \o Pad2(a \div 60) \o << ChColon >> \o Pad2(a % 60)

IsSpace(b) == b = ChSpace \/ (b >= 9 /\ b <= 13)

RECURSIVE TrimLeft(_, _)
\* The first position at or after i that holds no white space.
TrimLeft(s, i) == IF i <= Len(s) /\ IsSpace(s[i]) THEN TrimLeft(s, i + 1) ELSE i

RECURSIVE CountDigits(_, _, _)
\* How many digits, at most max, start at position i.
CountDigits(s, i, max) ==
    IF max > 0 /\ i <= Len(s) /\ IsDigit(s[i])
    THEN 1 + CountDigits(s, i + 1, max - 1) ELSE 0

RECURSIVE DigitsValue(_, _, _)
DigitsValue(s, i, n) ==
    IF n = 0 THEN 0
    ELSE 10 * DigitsValue(s, i, n - 1) + (s[i + n - 1] - ChZero)

\* The state of a parse: whether it still succeeds, the position of the next
\* byte, and the numbers read so far (chrono's Parsed), in the format's order.
ParseStart == [ok |-> TRUE, next |-> 1, vals |-> << >>]
ParseFail == [ok |-> FALSE, next |-> 0, vals |-> << >>]

\* 1..width digits at position i: the number they spell joins the numbers read.
TakeDigits(s, p, i, n, sign) ==
    IF n = 0 THEN ParseFail
    ELSE [ok |-> TRUE, next |-> i + n,
          vals |-> Append(p.vals, sign * DigitsValue(s, i, n))]

\* A numeric item of the format: white space is skipped, then 1..width digits
\* are taken.  p is the result of the item before.
SkipAndTake(s, p, i, width) == TakeDigits(s, p, i, CountDigits(s, i, width), 1)

ScanNumber(s, p, width) ==
    IF ~p.ok THEN ParseFail ELSE SkipAndTake(s, p, TrimLeft(s, p.next), width)

\* An explicit sign lifts the limit of four digits (six is all a year can have).
TakeSigned(s, p, i, n) ==
    IF n > 6 THEN ParseFail
    ELSE TakeDigits(s, p, i + 1, n, IF s[i] = ChMinus THEN -1 ELSE 1)

TakeYear(s, p, i) ==
    IF i <= Len(s) /\ s[i] \in {ChMinus, ChPlus}
    THEN TakeSigned(s, p, i, CountDigits(s, i + 1, 7))
    ELSE SkipAndTake(s, p, i, 4)

\* %Y
ScanYear(s, p) == TakeYear(s, p, TrimLeft(s, p.next))

\* A literal character of the format.
ScanLiteral(s, p, ch) ==
    IF p.ok /\ p.next <= Len(s) /\ s[p.next] = ch
    THEN [p EXCEPT !.next = @ + 1] ELSE ParseFail

\* White space of the format: any amount of it, none included.
ScanSpace(s, p) == IF p.ok THEN [p EXCEPT !.next = TrimLeft(s, @)] ELSE ParseFail

\* The format consumed all of s and the numbers are a date and a time of day:
\* the date as a day number and the time as seconds since midnight.
ParsedToDateTime(s, p) ==
    IF /\ p.ok /\ p.next = Len(s) + 1
       /\ p.vals[2] \in 1..12
       /\ p.vals[3] >= 1 /\ p.vals[3] <= DaysInMonth(p.vals[1], p.vals[2])
       /\ p.vals[4] <= 23 /\ p.vals[5] <= 59 /\ p.vals[6] <= 60
    THEN [ok |-> TRUE, date |-> DaysFromCivil(p.vals[1], p.vals[2], p.vals[3]),
          secs |-> p.vals[4] * 3600 + p.vals[5] * 60 + p.vals[6]]
    ELSE [ok |-> FALSE, date |-> 0, secs |-> 0]

\* NaiveDateTime::parse_from_str(s, DATE_FORMAT), DATE_FORMAT = "%Y-%m-%d %H:%M:%S".
parse_from_str(s) ==
    ParsedToDateTime(s,
        ScanNumber(s, ScanLiteral(s,
        ScanNumber(s, ScanLiteral(s,
        ScanNumber(s, ScanSpace(s,
        ScanNumber(s, ScanLiteral(s,
        ScanNumber(s, ScanLiteral(s,
        ScanYear(s, ParseStart),
        ChMinus), 2), ChMinus), 2)), 2), ChColon), 2), ChColon), 2))

\* The digits of s from position i on spell a number below 2^32.
FitsU32(s, i) == Len(s) - i + 1 <= 9

\* str::parse::<u32>: an optional "+", then one digit or more and nothing
\* else, the number below 2^32.  (Texts of more than nine digits are not
\* among the inputs and count as too large.)
parse_u32(s) ==
    LET i == IF s # << >> /\ s[1] = ChPlus THEN 2 ELSE 1 IN
    IF /\ i <= Len(s)
       /\ \A k \in i..Len(s) : IsDigit(s[k])
       /\ FitsU32(s, i)
    THEN [ok |-> TRUE, value |-> DigitsValue(s, i, Len(s) - i + 1)]
    ELSE [ok |-> FALSE, value |-> 0]

\* parse_entry_time: Ok((time / 100, time % 100)), or the ParseIntError.
parse_entry_time(time_str) ==
    [ok |-> parse_u32(time_str).ok,
     hour |-> parse_u32(time_str).value \div 100,
     minute |-> parse_u32(time_str).value % 100]

\* num_minutes counting a started minute as a whole one.
num_minutes_rounded_up(start, stop) ==
    LET secs == (stop.date - start.date) * 86400 + stop.secs - start.secs IN
    IF secs >= 0 THEN (secs + 59) \div 60 ELSE -((59 - secs) \div 60)

\* stop.signed_duration_since(start).num_minutes(): whole minutes, cut towards zero.
num_minutes(start, stop) ==
    LET secs == (stop.date - start.date) * 86400 + stop.secs - start.secs IN
    IF secs >= 0 THEN secs \div 60 ELSE -((-secs) \div 60)

(***************************************************************************)
(* Memo wrapping.                                                          *)
(***************************************************************************)
MAX_WIDTH == 20

RECURSIVE Utf8Valid(_)
\* str::from_utf8 on a piece of a valid string: it fails when the piece starts
\* inside a multi-byte character or ends inside one.
Utf8Valid(b) ==
    IF b = << >> THEN TRUE
    ELSE LET n == IF b[1] < 128 THEN 1
                  ELSE IF b[1] >= 194 /\ b[1] <= 223 THEN 2
                  ELSE IF b[1] >= 224 /\ b[1] <= 239 THEN 3
                  ELSE IF b[1] >= 240 /\ b[1] <= 244 THEN 4
                  ELSE 0
         IN  /\ n > 0
             /\ n <= Len(b)
             /\ \A i \in 2..n : b[i] >= 128 /\ b[i] <= 191
             /\ Utf8Valid(SubSeq(b, n + 1, Len(b)))

RECURSIVE format_chunks_always_newline(_, _)
\* format_chunks with a newline after every chunk, the short last one too.
format_chunks_always_newline(bytes, char_width) ==
    IF bytes = << >> THEN [ok |-> TRUE, text |-> << >>]
    ELSE LET n     == IF Len(bytes) < char_width THEN Len(bytes) ELSE char_width
             chunk == SubSeq(bytes, 1, n)
             rest  == format_chunks_always_newline(SubSeq(bytes, n + 1, Len(bytes)),
                                                   char_width)
         IN  IF ~Utf8Valid(chunk) \/ ~rest.ok THEN [ok |-> FALSE, text |-> << >>]
             ELSE [ok |-> TRUE, text |-> chunk \o << ChNewline >> \o rest.text]

RECURSIVE format_chunks(_, _)
\* The loop over entry_memo.as_bytes().chunks(char_width).
format_chunks(bytes, char_width) ==
    IF bytes = << >> THEN [ok |-> TRUE, text |-> << >>]
    ELSE LET n     == IF Len(bytes) < char_width THEN Len(bytes) ELSE char_width
             chunk == SubSeq(bytes, 1, n)
             rest  == format_chunks(SubSeq(bytes, n + 1, Len(bytes)), char_width)
         IN  IF ~Utf8Valid(chunk) \/ ~rest.ok THEN [ok |-> FALSE, text |-> << >>]
             ELSE [ok |-> TRUE,
                   text |-> chunk
                            \o (IF ~(Len(chunk) < char_width) THEN << ChNewline >>
                                ELSE << >>)
                            \o rest.text]

\* format_memo: the wrapped memo followed by "; " and "\n", or a Utf8Error.
format_memo(entry_memo, char_width) ==
    LET f == format_chunks(entry_memo, char_width) IN
    IF f.ok THEN [ok |-> TRUE, text |-> f.text \o << ChSemi, ChSpace >> \o << ChNewline >>]
    ELSE f

(***************************************************************************)
(* The state.                                                              *)
(***************************************************************************)
VARIABLES
    today,            \* Local::today(), a day number
    entries_table,    \* table `entries`, in rowid order:
                      \*   [id, start, stop, week_day, code, memo]
    projects_table,   \* table `projects`, in rowid order: [id, name, code]
    pc,               \* where the report process is: "idle", "fetched" (cli: the
                      \* GET has answered), "querying", "queried" (backend: the
                      \* SELECTs of query_weekly_entries), "done", "failed"
    report,           \* the arguments and the week window of the running report
    cli_entries,      \* cli: `entries`, the answer of GET /entries_between
    project_entries,  \* backend: Vec<ProjectEntries>, [code, entries]
    agg,              \* per project, in the order processed: hour_data and
                      \* memo_data (week_hours and week_memos), [project, hours, memos]
    table,            \* the rows given to table.printstd()
    memo_call,        \* a call of format_memo: [memo, width, ret]
    last_insert_rowid,\* what SELECT last_insert_rowid() answers on the server's
                      \* connection: the rowid of its latest INSERT, 0 before any
    writers,          \* per client, its call of db::write_entry: between the
                      \* INSERT and the SELECT last_insert_rowid() or not
    db_call,          \* the latest call of the storage or of a handler on it,
                      \* with the table it found and what it answered
    history           \* the values `entries` has had since the running report
                      \* began (kept for the properties; the program has no such
                      \* record)
    , app             \* the web front end (src/frontend/src/app.rs): the fields of
                      \* App, [fetching, new_entry, message, ft, panicked]
    , entry_cmd       \* the cli's `--entry` or `--backdate` on its way: the times
                      \* parsed, the date read, the Entry posted

store_vars == << last_insert_rowid, writers, db_call >>

ingest_vars == << app, entry_cmd >>

vars == << today, entries_table, projects_table, pc, report, cli_entries,
           project_entries, agg, table, memo_call, last_insert_rowid, writers,
           db_call, history, app, entry_cmd >>

NoReport ==
    [variant |-> "none", today |-> 0, num_weeks |-> 0, with_memos |-> FALSE,
     week_beginning |-> 0, week_ending |-> 0,
     start_date |-> << >>, end_date |-> << >>, projects |-> << >>,
     printed_beginning |-> 0]

NoMemoCall == [memo |-> << >>, width |-> 0, ret |-> [ok |-> FALSE, text |-> << >>]]

\* An Entry whose id is None is written with id 0: rowids start at 1 and no row
\* ever has the id 0, so `WHERE id = NULL` and `WHERE id = 0` select the same
\* rows, none.
NoEntry == [id |-> 0, start |-> << >>, stop |-> << >>, week_day |-> "", code |-> "",
            memo |-> << >>]

\* The clients that may have a request at the server at the same time.
Clients == {1, 2}

NoWrite == [phase |-> "none", entry |-> NoEntry, rowid |-> 0, first |-> FALSE]

NoDbCall ==
    [op |-> "none", server |-> "", client |-> 0, id |-> 0, entry |-> NoEntry,
     start_date |-> << >>, end_date |-> << >>, before |-> << >>, after |-> << >>,
     ok |-> FALSE, rows |-> << >>, rowid |-> 0, first |-> FALSE, status |-> 0,
     body |-> ""]

\* No `--entry` or `--backdate` is on its way.
NoCmd == [phase |-> "none", date |-> 0, start |-> << >>, stop |-> << >>,
          code |-> "", memo |-> << >>, entry |-> NoEntry]

\* No FetchTask, and one that is waiting for its response.
NoTask == [kind |-> "none", active |-> FALSE, body |-> NoEntry]
Task(kind, body) == [kind |-> kind, active |-> TRUE, body |-> body]

\* App::create
NewApp == [fetching |-> FALSE, new_entry |-> NoEntry, message |-> "Message",
           ft |-> NoTask, panicked |-> FALSE]

\* The values of `entries` a running report has lived through, with one more.
Seen(rows) == IF pc = "idle" THEN history ELSE history \cup {rows}

(***************************************************************************)
(* Storage: src/src/db.rs behind the server, src/backend/src/db.rs behind  *)
(* the backend cli.  Both keep the same two tables.                        *)
(***************************************************************************)
RECURSIVE MaxId(_)
MaxId(rows) ==
    IF rows = << >> THEN 0
    ELSE LET m == MaxId(Tail(rows)) IN IF Head(rows).id > m THEN Head(rows).id ELSE m

\* INSERT INTO entries(start, stop, week_day, code, memo): the id the entry
\* carries is not written; the rowid is one more than the greatest in the table.
insert_entry(rows, entry) ==
    Append(rows, [id |-> MaxId(rows) + 1, start |-> entry.start, stop |-> entry.stop,
                  week_day |-> entry.week_day, code |-> entry.code,
                  memo |-> entry.memo])

\* read_entries_between with the bounds left out: start > ? AND start < ?
read_entries_between_exclusive(rows, start_date, end_date) ==
    SelectSeq(rows, LAMBDA e : TextLess(start_date, e.start) /\ TextLess(e.start, end_date))

\* SELECT * FROM entries WHERE start >= ? AND start <= ?
read_entries_between(rows, start_date, end_date) ==
    SelectSeq(rows, LAMBDA e : TextLeq(start_date, e.start) /\ TextLeq(e.start, end_date))

\* select * from entries where id = ?, fetch_one: Err when there is no row.
read_entry(rows, id) ==
    [ok |-> \E i \in 1..Len(rows) : rows[i].id = id,
     rows |-> SelectSeq(rows, LAMBDA e : e.id = id)]

RECURSIVE MinId(_)
MinId(rows) ==
    IF Len(rows) <= 1 THEN (IF rows = << >> THEN 0 ELSE Head(rows).id)
    ELSE LET m == MinId(Tail(rows)) IN IF Head(rows).id < m THEN Head(rows).id ELSE m

\* read_last_entry ordering by id asc.
read_last_entry_oldest(rows) ==
    [ok |-> rows # << >>, rows |-> SelectSeq(rows, LAMBDA e : e.id = MinId(rows))]

\* select * from entries order by id desc limit 1, fetch_one
read_last_entry(rows) ==
    [ok |-> rows # << >>, rows |-> SelectSeq(rows, LAMBDA e : e.id = MaxId(rows))]

\* select * from entries
read_all_entries(rows) == rows

\* update_entry without its WHERE: every row takes the values.
update_entry_every_row(rows, entry) ==
    [i \in 1..Len(rows) |->
        [id |-> rows[i].id, start |-> entry.start, stop |-> entry.stop,
         week_day |-> entry.week_day, code |-> entry.code, memo |-> entry.memo]]

\* UPDATE entries SET start=?, stop=?, week_day=?, code=?, memo=? WHERE id=?
update_entry(rows, entry) ==
    [i \in 1..Len(rows) |->
        IF rows[i].id = entry.id
        THEN [id |-> rows[i].id, start |-> entry.start, stop |-> entry.stop,
              week_day |-> entry.week_day, code |-> entry.code, memo |-> entry.memo]
        ELSE rows[i]]

\* DELETE FROM entries WHERe id=?
delete_entry(rows, id) == SelectSeq(rows, LAMBDA e : e.id # id)

\* delete_last_entry with MIN(id) for MAX(id).
delete_last_entry_oldest(rows) == SelectSeq(rows, LAMBDA e : e.id # MinId(rows))

\* DELETE FROM entries WHERE id = (SELECT MAX(id) FROM entries LIMIT 1)
delete_last_entry(rows) == SelectSeq(rows, LAMBDA e : e.id # MaxId(rows))

\* INSERT INTO projects(name, code) VALUES(?, ?): the table has no constraint
\* on name or code, the id is the rowid.
write_project(rows, project) ==
    Append(rows, [id |-> MaxId(rows) + 1, name |-> project.name, code |-> project.code])

\* UPDATE projects SET name=?, code=? WHERE id=?
update_project(rows, project) ==
    [i \in 1..Len(rows) |->
        IF rows[i].id = project.id
        THEN [id |-> rows[i].id, name |-> project.name, code |-> project.code]
        ELSE rows[i]]

\* DELETE FROM projects WHERE code=?
delete_project(rows, code) == SelectSeq(rows, LAMBDA p : p.code # code)

\* SELECT ... FROM entries WHERE code='{}' AND start > '{}' and start < '{}'
select_project_entries(rows, code, week_beginning, week_ending) ==
    SelectSeq(rows, LAMBDA e : /\ e.code = code
                               /\ TextLess(week_beginning, e.start)
                               /\ TextLess(e.start, week_ending))

(***************************************************************************)
(* The week window.                                                        *)
(***************************************************************************)
\* week_beginning_of counting the weeks from one: 7 * (num_weeks + 1).
week_beginning_week_early(date, num_weeks) ==
    date - (WEEKDAYS[weekday(date)] + 7 * (num_weeks + 1))

\* week_beginning_of taking a negative num_weeks for 0.
week_beginning_clamped(date, num_weeks) ==
    date - (WEEKDAYS[weekday(date)] + 7 * (IF num_weeks < 0 THEN 0 ELSE num_weeks))

\* offset = WEEKDAYS[day_of_week] + 7 * num_weeks; week_beginning = today - offset
week_beginning_of(date, num_weeks) == date - (WEEKDAYS[weekday(date)] + 7 * num_weeks)

\* The cli's week_ending a day late.
cli_week_ending_next_sunday(week_beginning) == week_beginning + 7

\* The cli: week_ending = week_beginning + Duration::days(6)
cli_week_ending(week_beginning) == week_beginning + 6

\* The backend: week_ending = week_beginning + Duration::days(7)
backend_week_ending(week_beginning) == week_beginning + 7

(***************************************************************************)
(* Aggregation.  An IndexMap is a sequence of [key, value] in insertion    *)
(* order.                                                                  *)
(***************************************************************************)
IndexOf(map, key) ==
    IF \E i \in 1..Len(map) : map[i].key = key
    THEN CHOOSE i \in 1..Len(map) : map[i].key = key
    ELSE 0

\* new_hours with the week beginning on Monday.
new_hours_monday_first ==
    [i \in 1..7 |-> [key |-> WeekdayLabels[(i % 7) + 1], value |-> F64Zero]]

\* HourRowData::new().hours and week_hours: the seven days, 0.0 each.
new_hours == [i \in 1..7 |-> [key |-> WeekdayLabels[i], value |-> F64Zero]]

\* MemoRowData::new().memos and week_memos: the seven days, "" each.
new_memos == [i \in 1..7 |-> [key |-> WeekdayLabels[i], value |-> << >>]]

\* add_hours with `=` for `+=`: the bucket keeps the hours of the last entry.
add_hours_overwrite(map, key, h) ==
    LET i == IndexOf(map, key) IN
    IF i = 0 THEN Append(map, [key |-> key, value |-> h])
    ELSE [map EXCEPT ![i].value = h]

\* *map.entry(key).or_insert(0.0) += h
add_hours(map, key, h) ==
    LET i == IndexOf(map, key) IN
    IF i = 0 THEN Append(map, [key |-> key, value |-> F64Add(F64Zero, h)])
    ELSE [map EXCEPT ![i].value = F64Add(@, h)]

\* push_memo putting the text before what the bucket holds.
push_memo_front(map, key, text) ==
    LET i == IndexOf(map, key) IN
    IF i = 0 THEN Append(map, [key |-> key, value |-> text])
    ELSE [map EXCEPT ![i].value = text \o @]

\* map.entry(key).or_insert(String::from("")).push_str(text)
push_memo(map, key, text) ==
    LET i == IndexOf(map, key) IN
    IF i = 0 THEN Append(map, [key |-> key, value |-> text])
    ELSE [map EXCEPT ![i].value = @ \o text]

\* week_hours and week_memos take the entry's hours and wrapped memo; the ? on
\* a Utf8Error ends the report.
add_entry(acc, entry, hours, memo) ==
    IF ~memo.ok
    THEN [acc EXCEPT !.status = "err", !.hours = add_hours(@, entry.week_day, hours)]
    ELSE [acc EXCEPT !.hours = add_hours(@, entry.week_day, hours),
                     !.memos = push_memo(@, entry.week_day, memo.text)]

\* add_parsed leaving out an entry that takes no time or ends before it starts.
add_parsed_positive_only(acc, entry, start, stop) ==
    IF ~start.ok \/ ~stop.ok THEN [acc EXCEPT !.status = "panic"]
    ELSE IF num_minutes(start, stop) <= 0 THEN acc
    ELSE add_entry(acc, entry, F64Div60(num_minutes(start, stop)),
                   format_memo(entry.memo, MAX_WIDTH))

\* expect("Parsing error!") on both times, then the hours between them.
add_parsed(acc, entry, start, stop) ==
    IF ~start.ok \/ ~stop.ok THEN [acc EXCEPT !.status = "panic"]
    ELSE add_entry(acc, entry, F64Div60(num_minutes(start, stop)),
                   format_memo(entry.memo, MAX_WIDTH))

\* The body of the loop over one project's entries.  status: "ok", "panic"
\* (expect("Parsing error!")) or "err" (the ? on a Utf8Error).
aggregate_entry(acc, entry) ==
    IF acc.status # "ok" THEN acc
    ELSE add_parsed(acc, entry, parse_from_str(entry.start), parse_from_str(entry.stop))

RECURSIVE aggregate_entries(_, _)
aggregate_entries(acc, es) ==
    IF es = << >> THEN acc
    ELSE aggregate_entries(aggregate_entry(acc, Head(es)), Tail(es))

aggregate_project(code, es) ==
    aggregate_entries([status |-> "ok", project |-> code,
                       hours |-> new_hours, memos |-> new_memos], es)

(***************************************************************************)
(* Rows of the table.                                                      *)
(***************************************************************************)
Text_Sun == << 83, 117, 110 >>
Text_Mon == << 77, 111, 110 >>
Text_Tue == << 84, 117, 101 >>
Text_Wed == << 87, 101, 100 >>
Text_Thu == << 84, 104, 117 >>
Text_Fri == << 70, 114, 105 >>
Text_Sat == << 83, 97, 116 >>

\* row![Fb => "Project", "Sun", "Mon", "Tue", "Wed", "Thu", "Fri", "Sat"]
header_row ==
    [kind |-> "header", owner |-> "", first |-> "Project", color |-> "bold",
     cells |-> << Text_Sun, Text_Mon, Text_Tue, Text_Wed, Text_Thu, Text_Fri,
                  Text_Sat >>]

\* hour_row printing the hours with {:?}: a whole number gets ".0".
hour_row_debug(project, hours, color) ==
    [kind |-> "hour", owner |-> project, first |-> project, color |-> color,
     cells |-> [i \in 1..Len(hours) |->
                  IF ShiftLeft(ShiftRight(hours[i].value.mag, FracBits), FracBits)
                         = hours[i].value.mag
                  THEN F64ToString(hours[i].value) \o << ChDot, ChZero >>
                  ELSE F64ToString(hours[i].value)]]

\* HourRowData::convert_to_row; time_cells.  `owner` is the project whose turn
\* of the loop made the row, `first` the text of the row's first cell.
hour_row(project, hours, color) ==
    [kind |-> "hour", owner |-> project, first |-> project, color |-> color,
     cells |-> [i \in 1..Len(hours) |-> F64ToString(hours[i].value)]]

\* MemoRowData::convert_to_row; memo_cells.
memo_row(project, first, memos, color) ==
    [kind |-> "memo", owner |-> project, first |-> first, color |-> color,
     cells |-> [i \in 1..Len(memos) |-> memos[i].value]]

RECURSIVE Concat(_)
Concat(ss) == IF ss = << >> THEN << >> ELSE Head(ss) \o Concat(Tail(ss))

\* Every order in which a HashSet may yield its elements.
Orders(S) ==
    {p \in [1..Cardinality(S) -> S] :
        \A i, j \in 1..Cardinality(S) : i # j => p[i] # p[j]}

CodesOf(es) == {es[i].code : i \in 1..Len(es)}

AllOk(aggs) == \A i \in 1..Len(aggs) : aggs[i].status = "ok"

AggData(aggs) ==
    [i \in 1..Len(aggs) |->
        [project |-> aggs[i].project, hours |-> aggs[i].hours, memos |-> aggs[i].memos]]

(***************************************************************************)
(* The weekly report of the cli (src/src/cli/bin/main.rs).                 *)
(***************************************************************************)
\* The rows of one code: the hour row and, with memos, the memo row.
cli_rows(a, index, with_memos) ==
    LET text_color == IF index % 2 = 1 THEN "MAGENTA" ELSE "WHITE" IN
    << hour_row(a.project, a.hours, text_color) >>
    \o (IF with_memos THEN << memo_row(a.project, a.project, a.memos, text_color) >> ELSE << >>)

\* create_weekly_report up to the answer of GET /entries_between/{}/{}: the week
\* window, printed into the URL as Date<Local>, and the server's SELECT.
cli_report_fetch(num_weeks, with_memos, tz) ==
    /\ pc = "idle"
    /\ LET week_beginning == week_beginning_of(today, num_weeks)
           week_ending    == cli_week_ending(week_beginning)
           start_date     == LocalDateToString(week_beginning, tz)
           end_date       == LocalDateToString(week_ending, tz)
       IN  /\ report' = [variant |-> "cli", today |-> today, num_weeks |-> num_weeks,
                         with_memos |-> with_memos,
                         week_beginning |-> week_beginning,
                         week_ending |-> week_ending,
                         start_date |-> start_date, end_date |-> end_date,
                         projects |-> << >>, printed_beginning |-> 0]
           /\ cli_entries' = read_entries_between(entries_table, start_date, end_date)
    /\ pc' = "fetched"
    /\ history' = {entries_table}
    /\ UNCHANGED << today, entries_table, projects_table, project_entries, agg,
                    table, memo_call >>
    /\ UNCHANGED store_vars
    /\ UNCHANGED ingest_vars

\* finish_report printing, when a project fails, the header and the rows of the
\* projects before it.
finish_report_partial(aggs, rows) ==
    IF AllOk(aggs)
    THEN /\ pc' = "done"
         /\ agg' = AggData(aggs)
         /\ table' = << header_row >> \o Concat(rows)
    ELSE /\ pc' = "failed"
         /\ agg' = << >>
         /\ table' = << header_row >>
                      \o Concat(SubSeq(rows, 1,
                             (CHOOSE i \in 1..Len(aggs) :
                                 /\ aggs[i].status # "ok"
                                 /\ \A j \in 1..(i - 1) : aggs[j].status = "ok") - 1))

\* The end of create_weekly_report: the table is printed, or the process has
\* stopped on the way with nothing printed.
finish_report(aggs, rows) ==
    IF AllOk(aggs)
    THEN /\ pc' = "done"
         /\ agg' = AggData(aggs)
         /\ table' = << header_row >> \o Concat(rows)
    ELSE /\ pc' = "failed"
         /\ agg' = << >>
         /\ table' = << >>

cli_table(aggs, with_memos) ==
    finish_report(aggs, [i \in 1..Len(aggs) |-> cli_rows(aggs[i], i - 1, with_memos)])

\* create_weekly_report from the table header to table.printstd().  `order` is
\* the order in which the HashSet of codes is iterated.
cli_report_render(order) ==
    /\ pc = "fetched"
    /\ order \in Orders(CodesOf(cli_entries))
    /\ cli_table([i \in 1..Len(order) |->
                     aggregate_project(order[i],
                         SelectSeq(cli_entries, LAMBDA e : e.code = order[i]))],
                 report.with_memos)
    /\ UNCHANGED << today, entries_table, projects_table, report, cli_entries,
                    project_entries, memo_call, history >>
    /\ UNCHANGED store_vars
    /\ UNCHANGED ingest_vars

(***************************************************************************)
(* The weekly report of the backend cli (src/backend/src/bin/cli.rs on     *)
(* src/backend/src/db.rs).                                                 *)
(***************************************************************************)
\* query_weekly_entries up to its loop: the projects and the week window.
backend_report_start(weeks_ago, with_memos) ==
    /\ pc = "idle"
    /\ LET week_beginning == week_beginning_of(today, weeks_ago)
           week_ending    == backend_week_ending(week_beginning)
       IN  report' = [variant |-> "backend", today |-> today, num_weeks |-> weeks_ago,
                      with_memos |-> with_memos,
                      week_beginning |-> week_beginning,
                      week_ending |-> week_ending,
                      start_date |-> NaiveDateToString(week_beginning),
                      end_date |-> NaiveDateToString(week_ending),
                      projects |-> projects_table, printed_beginning |-> 0]
    /\ pc' = "querying"
    /\ project_entries' = << >>
    /\ history' = {entries_table}
    /\ UNCHANGED << today, entries_table, projects_table, cli_entries, agg, table,
                    memo_call >>
    /\ UNCHANGED store_vars
    /\ UNCHANGED ingest_vars

\* One turn of the loop of query_weekly_entries: the SELECT of the next project.
backend_query_project ==
    /\ pc = "querying"
    /\ Len(project_entries) < Len(report.projects)
    /\ LET project == report.projects[Len(project_entries) + 1] IN
       project_entries' =
           Append(project_entries,
                  [code |-> project.code,
                   entries |-> select_project_entries(entries_table, project.code,
                                   report.start_date, report.end_date)])
    /\ UNCHANGED << today, entries_table, projects_table, pc, report, cli_entries,
                    agg, table, memo_call, history >>
    /\ UNCHANGED store_vars
    /\ UNCHANGED ingest_vars

\* The rows of one project: the hour row unless all hours are zero, the memo
\* row when memos are asked for and there is one.
backend_rows(a, with_memos) ==
    LET all_zeros == ~\E i \in 1..Len(a.hours) : F64Positive(a.hours[i].value)
        no_memos  == ~\E i \in 1..Len(a.memos) : a.memos[i].value # << >>
    IN  (IF ~all_zeros THEN << hour_row(a.project, a.hours, "none") >> ELSE << >>)
        \o (IF ~no_memos /\ with_memos THEN << memo_row(a.project, " ", a.memos, "none") >>
            ELSE << >>)

backend_table(aggs, with_memos) ==
    finish_report(aggs, [i \in 1..Len(aggs) |-> backend_rows(aggs[i], with_memos)])

\* create_weekly_report after query_weekly_entries has returned.
backend_report_render ==
    /\ pc = "querying"
    /\ Len(project_entries) = Len(report.projects)
    /\ backend_table([i \in 1..Len(project_entries) |->
                         aggregate_project(project_entries[i].code,
                                           project_entries[i].entries)],
                     report.with_memos)
    /\ report' = [report EXCEPT !.printed_beginning =
                                    week_beginning_of(today, report.num_weeks)]
    /\ UNCHANGED << today, entries_table, projects_table, cli_entries,
                    project_entries, memo_call, history >>
    /\ UNCHANGED store_vars
    /\ UNCHANGED ingest_vars

\* The report process ends.
report_exit ==
    /\ pc \in {"done", "failed"}
    /\ pc' = "idle"
    /\ report' = NoReport
    /\ cli_entries' = << >>
    /\ project_entries' = << >>
    /\ agg' = << >>
    /\ table' = << >>
    /\ history' = {}
    /\ UNCHANGED << today, entries_table, projects_table, memo_call >>
    /\ UNCHANGED store_vars
    /\ UNCHANGED ingest_vars

(***************************************************************************)
(* Bounds of the exploration.                                              *)
(***************************************************************************)
MaxEntries  == 2    \* rows of `entries` written from the empty database
MaxProjects == 2    \* rows of `projects`
MaxWeeks    == 1    \* week offsets -MaxWeeks..MaxWeeks
DaySpan     == 1    \* days the clock advances
MaxListed   == 3    \* rows of `entries` a report is run on
WeekRange   == 60   \* days before and after 2024-01-07 a report is run on
MaxMemoLen  == 45   \* bytes of a memo given to format_memo
MaxWidth    == 3    \* widths 1..MaxWidth tried besides MAX_WIDTH
MaxRowid    == 3    \* the greatest rowid the server's store hands out
MaxChunks   == 3    \* chunks of a memo given to format_memo

(***************************************************************************)
(* Writers: POST /entry (new_entry -> db::write_entry) and the backend's   *)
(* process_new_entry -> write_entry; add_new_project -> insert_project.    *)
(***************************************************************************)
write_entry(entry) ==
    /\ pc \in {"idle", "fetched", "querying"}
    /\ Len(entries_table) < MaxEntries
    /\ entries_table' = insert_entry(entries_table, entry)
    /\ last_insert_rowid' = MaxId(entries_table) + 1
    /\ history' = Seen(entries_table')
    /\ UNCHANGED << today, projects_table, pc, report, cli_entries, project_entries,
                    agg, table, memo_call, writers, db_call >>
    /\ UNCHANGED ingest_vars

\* INSERT INTO projects(name, code) VALUES('{}', '{}')
insert_project(name, code) ==
    /\ pc \in {"idle", "fetched", "querying"}
    /\ Len(projects_table) < MaxProjects
    /\ MaxId(projects_table) < MaxRowid
    /\ projects_table' = Append(projects_table,
                                [id |-> MaxId(projects_table) + 1,
                                 name |-> name, code |-> code])
    /\ UNCHANGED << today, entries_table, pc, report, cli_entries, project_entries,
                    agg, table, memo_call, history >>
    /\ UNCHANGED store_vars
    /\ UNCHANGED ingest_vars

\* A call of format_memo(entry_memo, char_width).
format_memo_call(entry_memo, char_width) ==
    /\ pc = "idle"
    /\ memo_call = NoMemoCall
    /\ memo_call' = [memo |-> entry_memo, width |-> char_width,
                     ret |-> format_memo(entry_memo, char_width)]
    /\ UNCHANGED << today, entries_table, projects_table, pc, report, cli_entries,
                    project_entries, agg, table, history >>
    /\ UNCHANGED store_vars
    /\ UNCHANGED ingest_vars

\* The caller has taken the result.
format_memo_return ==
    /\ memo_call # NoMemoCall
    /\ memo_call' = NoMemoCall
    /\ UNCHANGED << today, entries_table, projects_table, pc, report, cli_entries,
                    project_entries, agg, table, history >>
    /\ UNCHANGED store_vars
    /\ UNCHANGED ingest_vars

(***************************************************************************)
(* The server's storage (src/src/db.rs) and the handlers on it             *)
(* (src/src/api.rs, and src/src/main.rs, the server before it).  A call is *)
(* one SQL statement and one step, except db::write_entry, which awaits    *)
(* its INSERT and then a SELECT last_insert_rowid(): requests of other     *)
(* clients are served between the two.  The pool's connections each keep   *)
(* their own last_insert_rowid; one connection is modelled.                *)
(***************************************************************************)
\* What is left alone by a call of the storage.
StoreFrame ==
    UNCHANGED << today, projects_table, pc, report, cli_entries, project_entries,
                 agg, table, memo_call, app, entry_cmd >>

\* The record of a call that finds the table as it is now and leaves it as
\* `after`.
Call(op, after) == [NoDbCall EXCEPT !.op = op, !.before = entries_table, !.after = after]

\* The answer of the call before has been taken.
Answered == db_call = NoDbCall

\* The reply is the JSON of the rows read.
JsonBody == "json"

\* db::write_entry up to the answer of its INSERT.
write_entry_insert(c, entry) ==
    /\ writers[c].phase = "none"
    /\ Len(entries_table) < MaxEntries
    /\ MaxId(entries_table) < MaxRowid
    /\ entries_table' = insert_entry(entries_table, entry)
    /\ last_insert_rowid' = MaxId(entries_table) + 1
    /\ writers' = [writers EXCEPT ![c] = [phase |-> "inserted", entry |-> entry,
                                          rowid |-> MaxId(entries_table) + 1,
                                          first |-> entries_table = << >>]]
    /\ history' = Seen(entries_table')
    /\ UNCHANGED db_call
    /\ StoreFrame

\* db::write_entry from SELECT last_insert_rowid() to Ok(rec.0).  In the record
\* `first` tells that the call's INSERT found the table empty, `id` is the rowid
\* that INSERT made, `rowid` what the call returns.
write_entry_last_rowid(c) ==
    /\ Answered
    /\ writers[c].phase = "inserted"
    /\ db_call' = [Call("write_entry", entries_table) EXCEPT
                       !.client = c, !.entry = writers[c].entry,
                       !.first = writers[c].first, !.id = writers[c].rowid,
                       !.ok = TRUE, !.rowid = last_insert_rowid]
    /\ writers' = [writers EXCEPT ![c] = NoWrite]
    /\ UNCHANGED << entries_table, last_insert_rowid, history >>
    /\ StoreFrame

\* GET /entry/{id}: read_entry (the handler) on db::read_entry.
read_entry_reply(r) ==
    [status |-> IF r.ok THEN 200 ELSE 400, body |-> IF r.ok THEN JsonBody ELSE "Invalid id"]

read_entry_handler(id) ==
    /\ Answered
    /\ db_call' = [Call("GET /entry", entries_table) EXCEPT
                       !.id = id,
                       !.ok = read_entry(entries_table, id).ok,
                       !.rows = read_entry(entries_table, id).rows,
                       !.status = read_entry_reply(read_entry(entries_table, id)).status,
                       !.body = read_entry_reply(read_entry(entries_table, id)).body]
    /\ UNCHANGED << entries_table, last_insert_rowid, writers, history >>
    /\ StoreFrame

\* GET /last_entry: last_entry on db::read_last_entry.
last_entry ==
    /\ Answered
    /\ db_call' = [Call("GET /last_entry", entries_table) EXCEPT
                       !.ok = read_last_entry(entries_table).ok,
                       !.rows = read_last_entry(entries_table).rows,
                       !.status = IF read_last_entry(entries_table).ok THEN 200 ELSE 500,
                       !.body = IF read_last_entry(entries_table).ok THEN JsonBody
                                ELSE "Failed to read last entry."]
    /\ UNCHANGED << entries_table, last_insert_rowid, writers, history >>
    /\ StoreFrame

\* GET /entries_between/{start}/{stop}: entries_between on
\* db::read_entries_between.
entries_between(start, stop) ==
    /\ Answered
    /\ db_call' = [Call("GET /entries_between", entries_table) EXCEPT
                       !.start_date = start, !.end_date = stop, !.ok = TRUE,
                       !.rows = read_entries_between(entries_table, start, stop),
                       !.status = 200, !.body = JsonBody]
    /\ UNCHANGED << entries_table, last_insert_rowid, writers, history >>
    /\ StoreFrame

\* POST /update_entry: update_entry_handler on db::update_entry.
update_entry_handler(entry) ==
    /\ Answered
    /\ entries_table' = update_entry(entries_table, entry)
    /\ db_call' = [Call("POST /update_entry", entries_table') EXCEPT
                       !.id = entry.id, !.entry = entry, !.ok = TRUE, !.status = 200]
    /\ history' = Seen(entries_table')
    /\ UNCHANGED << last_insert_rowid, writers >>
    /\ StoreFrame

\* What delete_entry_handler answers: in src/src/api.rs the bare status, in
\* src/src/main.rs the status with a text.
delete_entry_reply(server, ok) ==
    IF server = "main"
    THEN [status |-> IF ok THEN 200 ELSE 400,
          body |-> IF ok THEN "Entry deleted." ELSE "Error deleting entry."]
    ELSE [status |-> IF ok THEN 200 ELSE 400, body |-> ""]

\* POST /delete_entry/{id}: delete_entry_handler on db::delete_entry, which is
\* Ok whether or not a row had the id.
delete_entry_handler(server, id) ==
    /\ Answered
    /\ entries_table' = delete_entry(entries_table, id)
    /\ db_call' = [Call("POST /delete_entry", entries_table') EXCEPT
                       !.server = server, !.id = id, !.ok = TRUE,
                       !.status = delete_entry_reply(server, TRUE).status,
                       !.body = delete_entry_reply(server, TRUE).body]
    /\ history' = Seen(entries_table')
    /\ UNCHANGED << last_insert_rowid, writers >>
    /\ StoreFrame

\* POST /delete_last_entry: delete_last_entry_handler on db::delete_last_entry.
delete_last_entry_handler ==
    /\ Answered
    /\ entries_table' = delete_last_entry(entries_table)
    /\ db_call' = [Call("POST /delete_last_entry", entries_table') EXCEPT !.ok = TRUE, !.status = 200]
    /\ history' = Seen(entries_table')
    /\ UNCHANGED << last_insert_rowid, writers >>
    /\ StoreFrame

\* The caller has taken the answer.
db_return ==
    /\ ~Answered
    /\ db_call' = NoDbCall
    /\ UNCHANGED << entries_table, last_insert_rowid, writers, history >>
    /\ StoreFrame

(***************************************************************************)
(* The projects on the server: new_project, update_project_handler and     *)
(* delete_project_handler of src/src/api.rs on src/src/db.rs.              *)
(***************************************************************************)
CatalogFrame ==
    UNCHANGED << today, entries_table, pc, report, cli_entries, project_entries,
                 agg, table, memo_call, last_insert_rowid, writers, history,
                 app, entry_cmd >>

ProjectCall(op, after) ==
    [NoDbCall EXCEPT !.op = op, !.before = projects_table, !.after = after,
                     !.ok = TRUE, !.status = 200]

\* POST /project: new_project on db::write_project.
new_project(project) ==
    /\ Answered
    /\ Len(projects_table) < MaxProjects
    /\ MaxId(projects_table) < MaxRowid
    /\ projects_table' = write_project(projects_table, project)
    /\ db_call' = ProjectCall("POST /project", projects_table')
    /\ CatalogFrame

\* POST /update_project: update_project_handler on db::update_project.
update_project_handler(project) ==
    /\ Answered
    /\ projects_table' = update_project(projects_table, project)
    /\ db_call' = [ProjectCall("POST /update_project", projects_table') EXCEPT
                       !.id = project.id]
    /\ CatalogFrame

\* POST /delete_project/{code}: delete_project_handler on db::delete_project.
delete_project_handler(code) ==
    /\ Answered
    /\ projects_table' = delete_project(projects_table, code)
    /\ db_call' = [ProjectCall("POST /delete_project", projects_table') EXCEPT
                       !.body = "Entry deleted."]
    /\ CatalogFrame

(***************************************************************************)
(* New entries from the cli (src/src/cli/bin/main.rs): `--entry` and       *)
(* `--backdate`, posted to POST /entry of the server.                      *)
(***************************************************************************)
IngestFrame ==
    UNCHANGED << projects_table, pc, report, cli_entries, project_entries, agg,
                 table, memo_call, writers, db_call >>

\* There is room for one more row.
Room == Len(entries_table) < MaxEntries /\ MaxId(entries_table) < MaxRowid

\* process_new_entry up to `stop`: both times parsed (the ? ends the command
\* on an error), the clock read once by Local::now(), the two texts made.
process_new_entry(values) ==
    /\ entry_cmd = NoCmd
    /\ LET start == parse_entry_time(values[1])
           stop  == parse_entry_time(values[2])
       IN  entry_cmd' =
               IF ~start.ok \/ ~stop.ok THEN [NoCmd EXCEPT !.phase = "rejected"]
               ELSE [NoCmd EXCEPT
                        !.phase = "dated", !.date = today,
                        !.start = entry_time_to_full_date(today, start.hour, start.minute),
                        !.stop = entry_time_to_full_date(today, stop.hour, stop.minute),
                        !.code = values[3], !.memo = values[4]]
    /\ UNCHANGED << today, entries_table, last_insert_rowid, history, app >>
    /\ IngestFrame

\* process_new_entry from `week_day` on: the clock read again by
\* Local::today(), the Entry posted and stored by the server.
process_new_entry_post ==
    /\ entry_cmd.phase = "dated"
    /\ Room
    /\ LET new_entry == [id |-> 0, start |-> entry_cmd.start, stop |-> entry_cmd.stop,
                         week_day |-> weekday(today), code |-> entry_cmd.code,
                         memo |-> entry_cmd.memo]
       IN  /\ entry_cmd' = [entry_cmd EXCEPT !.phase = "posted", !.entry = new_entry]
           /\ entries_table' = insert_entry(entries_table, new_entry)
    /\ last_insert_rowid' = MaxId(entries_table) + 1
    /\ history' = Seen(entries_table')
    /\ UNCHANGED << today, app >>
    /\ IngestFrame

\* The date of `--backdate`: one of three words, or else year, month and day
\* as split at "-" and parsed.
backdate(value) ==
    CASE value.word = "today" -> today
      [] value.word = "yesterday" -> today - 1
      [] value.word = "tomorrow" -> today + 1
      [] OTHER -> DaysFromCivil(value.year, value.month, value.day)

\* backdated_entry: the date, both times parsed, the Entry posted and stored.
backdated_entry(values) ==
    /\ entry_cmd = NoCmd
    /\ LET date  == backdate(values[1])
           start == parse_entry_time(values[2])
           stop  == parse_entry_time(values[3])
           new_entry ==
               [id |-> 0,
                start |-> entry_time_to_full_date(date, start.hour, start.minute),
                stop |-> entry_time_to_full_date(date, stop.hour, stop.minute),
                week_day |-> weekday(date), code |-> values[4], memo |-> values[5]]
       IN  IF ~start.ok \/ ~stop.ok
           THEN /\ entry_cmd' = [NoCmd EXCEPT !.phase = "rejected"]
                /\ UNCHANGED << entries_table, last_insert_rowid, history >>
           ELSE /\ Room
                /\ entry_cmd' = [NoCmd EXCEPT !.phase = "posted", !.date = date,
                                              !.entry = new_entry]
                /\ entries_table' = insert_entry(entries_table, new_entry)
                /\ last_insert_rowid' = MaxId(entries_table) + 1
                /\ history' = Seen(entries_table')
    /\ UNCHANGED << today, app >>
    /\ IngestFrame

\* The command ends.
entry_cmd_exit ==
    /\ entry_cmd.phase \in {"posted", "rejected"}
    /\ entry_cmd' = NoCmd
    /\ UNCHANGED << today, entries_table, last_insert_rowid, history, app >>
    /\ IngestFrame

(***************************************************************************)
(* The web front end (src/frontend/src/app.rs).  Its POST goes to          *)
(* /new_entry of src/backend/src/bin/server.rs, which stores the body.     *)
(***************************************************************************)
Msg(type, value) == [type |-> type, value |-> value]

\* App::update.  FetchReady carries Ok(data), its value then the data, or an
\* Err, its value then "Err": response.unwrap() panics on it.
update(a, msg) ==
    CASE msg.type = "StartTime" -> [a EXCEPT !.new_entry.start = msg.value]
      [] msg.type = "StopTime" ->
            [a EXCEPT !.new_entry.stop = msg.value, !.new_entry.week_day = "Fri"]
      [] msg.type = "Code" -> [a EXCEPT !.new_entry.code = msg.value]
      [] msg.type = "Memo" -> [a EXCEPT !.new_entry.memo = msg.value]
      [] msg.type = "FetchData" ->
            [a EXCEPT !.fetching = TRUE, !.ft = Task("get_hello", NoEntry)]
      [] msg.type = "PostData" -> [a EXCEPT !.ft = Task("post_entry", a.new_entry)]
      [] msg.type = "FetchReady" ->
            IF msg.value = "Err"
            THEN [a EXCEPT !.fetching = FALSE, !.panicked = TRUE]
            ELSE [a EXCEPT !.fetching = FALSE, !.message = msg.value]
      [] msg.type = "PostSuccess" -> a
      [] OTHER -> [a EXCEPT !.message = "Failed!"]

FrontFrame ==
    UNCHANGED << today, projects_table, pc, report, cli_entries, project_entries,
                 agg, table, memo_call, last_insert_rowid, writers, db_call,
                 entry_cmd >>

\* A message of the page: the four inputs, the button, and FetchData.
send_message(msg) ==
    /\ ~app.panicked
    /\ app' = update(app, msg)
    /\ UNCHANGED << entries_table, history >>
    /\ FrontFrame

\* The callback of get_hello on the response, and the update on its message.
get_hello_callback(is_success, body) ==
    /\ ~app.panicked
    /\ app.ft = Task("get_hello", NoEntry)
    /\ app' = [update(app, IF is_success THEN Msg("FetchReady", body)
                           ELSE Msg("Failure", ""))
                  EXCEPT !.ft.active = FALSE]
    /\ UNCHANGED << entries_table, history >>
    /\ FrontFrame

\* POST /new_entry served (write_entry of src/backend/src/db.rs) and the
\* callback of post_entry on the response, or the callback on a failure.
post_entry_callback(is_success) ==
    /\ ~app.panicked
    /\ app.ft.kind = "post_entry" /\ app.ft.active
    /\ is_success => Room
    /\ entries_table' = IF is_success THEN insert_entry(entries_table, app.ft.body)
                        ELSE entries_table
    /\ history' = Seen(entries_table')
    /\ app' = [update(app, IF is_success THEN Msg("PostSuccess", "")
                           ELSE Msg("Failure", ""))
                  EXCEPT !.ft.active = FALSE]
    /\ FrontFrame

(***************************************************************************)
(* The inputs explored.                                                    *)
(***************************************************************************)
Sunday    == DaysFromCivil(2024, 1, 7)
Wednesday == Sunday + 3
Saturday  == Sunday + 6

Code1 == "20-008"
Code2 == "19-165"
Codes == {Code1, Code2}

\* A memo of n bytes, each position its own letter.
Memo(n) == [i \in 1..n |-> 97 + ((i - 1) % 26)]

\* A memo of n + 1 bytes whose last character takes the bytes n and n + 1.
AccentMemo(n) == Memo(n - 1) \o << 195, 169 >>

\* An entry as a client submits it: no id, the week day that of the date.
NewEntry(code, date, from, to, memo) ==
    [id |-> 0,
     start |-> FormatDateTime(date, from[1], from[2], from[3]),
     stop |-> FormatDateTime(date, to[1], to[2], to[3]),
     week_day |-> weekday(date), code |-> code, memo |-> memo]

\* The first day of the week of Wednesday, two hours.
SundayEntry == NewEntry(Code1, Sunday, << 9, 0, 0 >>, << 11, 0, 0 >>, Memo(0))
\* Its second day, one hour.
MondayEntry == NewEntry(Code1, Sunday + 1, << 9, 0, 0 >>, << 10, 0, 0 >>, Memo(MAX_WIDTH))
\* Two and a half hours of the other project.
HalfHourEntry == NewEntry(Code2, Sunday, << 9, 0, 0 >>, << 11, 30, 0 >>, Memo(MAX_WIDTH + 1))
\* Four minutes and a half.
FourMinuteEntry == NewEntry(Code1, Sunday + 1, << 13, 0, 0 >>, << 13, 4, 30 >>, Memo(3))
\* The last second of the week, no time spent.
LastSecondEntry == NewEntry(Code2, Saturday, << 23, 59, 59 >>, << 23, 59, 59 >>, Memo(2))
\* The first hour after the week.
AfterEntry == NewEntry(Code1, Saturday + 1, << 0, 0, 0 >>, << 1, 0, 0 >>, Memo(1))
\* Stop before start.
BackwardsEntry == NewEntry(Code1, Saturday, << 10, 0, 0 >>, << 9, 45, 0 >>, Memo(2 * MAX_WIDTH + 1))
\* A memo whose twentieth and twenty-first bytes are one character.
SplitCharEntry == NewEntry(Code2, Sunday + 2, << 9, 0, 0 >>, << 9, 30, 0 >>, AccentMemo(MAX_WIDTH))

\* As `-e "0900|2500|20-008|a"` stores it: the stop is no time of day.
LateStopEntry == NewEntry(Code1, Sunday + 1, << 9, 0, 0 >>, << 25, 0, 0 >>, Memo(1))
\* An entry posted with a week day that chrono does not print.
OffLabelEntry ==
    [NewEntry(Code1, Sunday + 3, << 9, 0, 0 >>, << 10, 30, 0 >>, Memo(1))
        EXCEPT !.week_day = "WED"]

MainInputs == {SundayEntry, MondayEntry, LastSecondEntry, BackwardsEntry, AfterEntry}

ReportInputs ==
    {SundayEntry, MondayEntry, HalfHourEntry, FourMinuteEntry, LastSecondEntry,
     BackwardsEntry, SplitCharEntry}

MemoInputs ==
    {Memo(n) : n \in 0..MaxMemoLen} \cup {AccentMemo(n) : n \in 1..MaxMemoLen}

Widths == (1..MaxWidth) \cup {MAX_WIDTH}

TzOffsets == {-300, 0}
WeekOffsets == (-MaxWeeks)..MaxWeeks
WeekDates == (Sunday - WeekRange)..(Sunday + WeekRange)

RECURSIVE insert_all(_, _)
\* The table after the entries of es have been written, one by one.
insert_all(rows, es) ==
    IF es = << >> THEN rows ELSE insert_all(insert_entry(rows, Head(es)), Tail(es))

SeqsUpTo(S, n) == UNION {[1..k -> S] : k \in 0..n}

ProjectRows(codes) == [i \in 1..Len(codes) |-> [id |-> i, name |-> "p", code |-> codes[i]]]

\* Midnight passes.
advance_day ==
    /\ pc \in {"idle", "fetched", "querying"}
    /\ today < Saturday + DaySpan
    /\ today' = today + 1
    /\ UNCHANGED << entries_table, projects_table, pc, report, cli_entries,
                    project_entries, agg, table, memo_call, history >>
    /\ UNCHANGED store_vars
    /\ UNCHANGED ingest_vars

\* No report runs and nothing has been computed.
AtRest ==
    /\ pc = "idle"
    /\ report = NoReport
    /\ cli_entries = << >>
    /\ project_entries = << >>
    /\ agg = << >>
    /\ table = << >>
    /\ memo_call = NoMemoCall
    /\ last_insert_rowid = 0
    /\ writers = [c \in Clients |-> NoWrite]
    /\ db_call = NoDbCall
    /\ history = {}
    /\ app = NewApp
    /\ entry_cmd = NoCmd

(***************************************************************************)
(* The system: writers and reports from an empty database.                 *)
(***************************************************************************)
Init ==
    /\ today = Saturday
    /\ entries_table = << >>
    /\ projects_table = << >>
    /\ AtRest

Next ==
    \/ \E e \in MainInputs : write_entry(e)
    \/ \E c \in Codes : insert_project("p", c)
    \/ \E n \in WeekOffsets, m \in BOOLEAN, tz \in TzOffsets : cli_report_fetch(n, m, tz)
    \/ \E order \in Orders(CodesOf(cli_entries)) : cli_report_render(order)
    \/ \E n \in WeekOffsets, m \in BOOLEAN : backend_report_start(n, m)
    \/ backend_query_project
    \/ backend_report_render
    \/ report_exit
    \/ advance_day

Spec == Init /\ [][Next]_vars

(***************************************************************************)
(* Reports of the current week on a database that holds any MaxListed of   *)
(* the entries of ReportInputs, in any order of writing.                   *)
(***************************************************************************)
InitReport ==
    /\ today = Wednesday
    /\ entries_table \in {insert_all(<< >>, es) : es \in SeqsUpTo(ReportInputs, MaxListed)}
    /\ projects_table = ProjectRows(<< Code1, Code2 >>)
    /\ AtRest

NextReport ==
    \/ \E m \in BOOLEAN : cli_report_fetch(0, m, 0)
    \/ \E order \in Orders(CodesOf(cli_entries)) : cli_report_render(order)
    \/ \E m \in BOOLEAN : backend_report_start(0, m)
    \/ backend_query_project
    \/ backend_report_render
    \/ report_exit

SpecReport == InitReport /\ [][NextReport]_vars

(***************************************************************************)
(* Reports run on any day of WeekDates, of any week of WeekOffsets.        *)
(***************************************************************************)
InitWeek ==
    /\ today \in WeekDates
    /\ entries_table = insert_all(<< >>, << MondayEntry >>)
    /\ projects_table = ProjectRows(<< Code1 >>)
    /\ AtRest

NextWeek ==
    \/ \E n \in WeekOffsets, tz \in TzOffsets : cli_report_fetch(n, FALSE, tz)
    \/ \E order \in Orders(CodesOf(cli_entries)) : cli_report_render(order)
    \/ \E n \in WeekOffsets : backend_report_start(n, FALSE)
    \/ backend_query_project
    \/ backend_report_render
    \/ report_exit

SpecWeek == InitWeek /\ [][NextWeek]_vars

(***************************************************************************)
(* Reports of the current week on any MaxEntries of the entries of         *)
(* ProjectInputs and on a reference table of projects that lacks a code,   *)
(* has each once, or has one twice.                                        *)
(***************************************************************************)
ProjectInputs ==
    {SundayEntry, MondayEntry, HalfHourEntry, OffLabelEntry, LateStopEntry,
     SplitCharEntry}

ProjectTables ==
    {<< >>, << Code1 >>, << Code2, Code1 >>, << Code1, Code2 >>, << Code1, Code1 >>}

InitProjects ==
    /\ today = Wednesday
    /\ entries_table \in {insert_all(<< >>, es) : es \in SeqsUpTo(ProjectInputs, MaxEntries)}
    /\ projects_table \in {ProjectRows(codes) : codes \in ProjectTables}
    /\ AtRest

NextProjects ==
    \/ \E m \in BOOLEAN : cli_report_fetch(0, m, 0)
    \/ \E order \in Orders(CodesOf(cli_entries)) : cli_report_render(order)
    \/ \E m \in BOOLEAN : backend_report_start(0, m)
    \/ backend_query_project
    \/ backend_report_render
    \/ report_exit

SpecProjects == InitProjects /\ [][NextProjects]_vars

(***************************************************************************)
(* Calls of format_memo.                                                   *)
(***************************************************************************)
NextMemo ==
    \/ \E w \in Widths, memo \in MemoInputs :
           Len(memo) <= MaxChunks * w /\ format_memo_call(memo, w)
    \/ format_memo_return

SpecMemo == Init /\ [][NextMemo]_vars

(***************************************************************************)
(* Requests of two clients at the server's storage, from an empty table.   *)
(***************************************************************************)
StoreInputs == {SundayEntry, MondayEntry}

\* The ids asked for: None (0) and every rowid there can be.
Ids == 0..MaxRowid

\* Bounds of GET /entries_between: dates as the two report programs print
\* them, and the start of an entry.
RangeBounds ==
    {NaiveDateToString(Sunday), LocalDateToString(Sunday, -300), SundayEntry.start,
     MondayEntry.start}

NextStore ==
    \/ \E c \in Clients, e \in StoreInputs : write_entry_insert(c, e)
    \/ \E c \in Clients : write_entry_last_rowid(c)
    \/ \E id \in Ids : read_entry_handler(id)
    \/ last_entry
    \/ \E start \in RangeBounds, stop \in RangeBounds : entries_between(start, stop)
    \/ \E id \in Ids, e \in StoreInputs : update_entry_handler([e EXCEPT !.id = id])
    \/ \E server \in {"api", "main"}, id \in Ids : delete_entry_handler(server, id)
    \/ delete_last_entry_handler
    \/ db_return

SpecStore == Init /\ [][NextStore]_vars

(***************************************************************************)
(* The projects: the server's requests and the backend cli's insert.       *)
(***************************************************************************)
Names == {"p", "q"}

NextCatalog ==
    \/ \E n \in Names, c \in Codes : new_project([id |-> 0, name |-> n, code |-> c])
    \/ \E id \in Ids, n \in Names, c \in Codes :
           update_project_handler([id |-> id, name |-> n, code |-> c])
    \/ \E c \in Codes : delete_project_handler(c)
    \/ \E c \in Codes : insert_project("p", c)
    \/ db_return

SpecCatalog == Init /\ [][NextCatalog]_vars

(***************************************************************************)
(* Entries from the cli, on the last day of a week and the day after.      *)
(***************************************************************************)
\* The text of a number given by its digits.
DigitText(digits) == [i \in 1..Len(digits) |-> ChZero + digits[i]]

\* Start times as typed: "900", "2500" and "9:00".
StartTimeInputs ==
    {DigitText(<< 9, 0, 0 >>), DigitText(<< 2, 5, 0, 0 >>),
     << ChZero + 9, ChColon, ChZero, ChZero >>}

\* Stop times as typed: "1030", "1075" and "9:00".
StopTimeInputs ==
    {DigitText(<< 1, 0, 3, 0 >>), DigitText(<< 1, 0, 7, 5 >>),
     << ChZero + 9, ChColon, ChZero, ChZero >>}

Word(w) == [word |-> w, year |-> 0, month |-> 0, day |-> 0]

BackdateInputs ==
    {Word("today"), Word("yesterday"), Word("tomorrow"),
     [word |-> "", year |-> 2024, month |-> 1, day |-> 8]}

NextEntryCmd ==
    \/ \E start \in StartTimeInputs, stop \in StopTimeInputs :
           process_new_entry(<< start, stop, Code1, Memo(1) >>)
    \/ process_new_entry_post
    \/ \E date \in BackdateInputs, start \in StartTimeInputs, stop \in StopTimeInputs :
           backdated_entry(<< date, start, stop, Code1, Memo(1) >>)
    \/ entry_cmd_exit
    \/ advance_day

SpecEntryCmd == Init /\ [][NextEntryCmd]_vars

(***************************************************************************)
(* The web front end: what is typed, the two requests and their answers.   *)
(***************************************************************************)
\* Typed into Start: 09:00:00 of a Monday and of a Friday.
StartInputs ==
    {FormatDateTime(Sunday + 1, 9, 0, 0), FormatDateTime(Sunday + 5, 9, 0, 0)}

\* Typed into Stop: 10:00:00 of the Monday.
StopInputs == {FormatDateTime(Sunday + 1, 10, 0, 0)}

\* What a GET of "/" answers with: a text, or a body that is no text.
Bodies == {"Hello", "Err"}

NextFront ==
    \/ \E t \in StartInputs : send_message(Msg("StartTime", t))
    \/ \E t \in StopInputs : send_message(Msg("StopTime", t))
    \/ send_message(Msg("Code", Code1))
    \/ send_message(Msg("Memo", Memo(1)))
    \/ send_message(Msg("PostData", ""))
    \/ send_message(Msg("FetchData", ""))
    \/ \E is_success \in BOOLEAN, body \in Bodies : get_hello_callback(is_success, body)
    \/ \E is_success \in BOOLEAN : post_entry_callback(is_success)

SpecFront == Init /\ [][NextFront]_vars

(***************************************************************************)
(* Properties.  Each is checked under the specification named with it.     *)
(***************************************************************************)
\* A report has computed its week window.
ReportRan == report.variant # "none"

\* Days since the last Sunday, counted from a known Sunday (2024-01-07).
DaysSinceSunday(date) == (date - Sunday) % 7

\* The day a stored timestamp lies on.
StartDate(e) == parse_from_str(e.start).date

\* The rows whose start lies on one of the seven days from `begin` on.
InWindow(rows, begin) ==
    SelectSeq(rows, LAMBDA e : StartDate(e) >= begin /\ StartDate(e) <= begin + 6)

C2_TodayInWindow ==
    (ReportRan /\ report.num_weeks = 0) =>
        /\ report.week_beginning <= report.today
        /\ report.today <= report.week_beginning + 6
        /\ report.variant = "cli" => report.today <= report.week_ending
        /\ report.variant = "backend" => report.today < report.week_ending

\* Today is the last day of its window.
C2_Witness ==
    /\ pc = "done"
    /\ report.variant = "cli"
    /\ report.num_weeks = 0
    /\ report.today = report.week_ending

C4_AsStated ==
    [][/\ (pc = "idle" /\ pc' = "fetched") =>
              cli_entries' = InWindow(entries_table, report'.week_beginning)
       /\ (pc = "querying" /\ Len(project_entries') = Len(project_entries) + 1) =>
              project_entries'[Len(project_entries')].entries
                  = SelectSeq(InWindow(entries_table, report.week_beginning),
                              LAMBDA e : e.code = project_entries'[Len(project_entries')].code)
      ]_vars

\* The cli has fetched the entries of a week and an entry of the week's Sunday
\* that was stored before is not among them.
C4_Witness ==
    /\ pc = "fetched"
    /\ \E i \in 1..Len(entries_table) :
          /\ StartDate(entries_table[i]) = report.week_beginning
          /\ \A j \in 1..Len(cli_entries) : cli_entries[j].id # entries_table[i].id
          /\ \E j \in 1..Len(cli_entries) : cli_entries[j].id > entries_table[i].id

\* The entries the report has for the project of agg[i], in the order it reads
\* them.
FetchedOf(i) ==
    IF report.variant = "cli"
    THEN SelectSeq(cli_entries, LAMBDA e : e.code = agg[i].project)
    ELSE project_entries[i].entries

\* The seconds from the start of an entry to its stop.
SecondsOf(e) ==
    (parse_from_str(e.stop).date - parse_from_str(e.start).date) * 86400
    + parse_from_str(e.stop).secs - parse_from_str(e.start).secs

\* The whole minutes of an entry.
WholeMinutes(e) ==
    IF SecondsOf(e) >= 0 THEN SecondsOf(e) \div 60 ELSE -((-SecondsOf(e)) \div 60)

RECURSIVE SumOfBucket(_, _, _)
\* acc plus, one by one, the hours of the entries of es whose week day is label.
SumOfBucket(es, label, acc) ==
    IF es = << >> THEN acc
    ELSE SumOfBucket(Tail(es), label,
                     IF Head(es).week_day = label
                     THEN F64Add(acc, F64Div60(WholeMinutes(Head(es))))
                     ELSE acc)

\* n hours as an f64, n a natural number.
WholeHours(n) == [neg |-> FALSE, mag |-> ShiftLeft(BigFromNat(n), FracBits)]

\* 2.5 as an f64: five halves.
TwoAndAHalf == [neg |-> FALSE, mag |-> ShiftLeft(BigFromNat(5), FracBits - 1)]

\* es is one entry from 09:00:00 to 11:30:00 of a Sunday.
IsHalfPastEleven(es) ==
    /\ Len(es) = 1
    /\ es[1].week_day = "Sun"
    /\ parse_from_str(es[1].start).secs = 9 * 3600
    /\ parse_from_str(es[1].stop).secs = 11 * 3600 + 30 * 60
    /\ parse_from_str(es[1].stop).date = parse_from_str(es[1].start).date

\* C5 (SpecReport): every bucket of a project holds the sum of (stop - start) in
\* whole minutes / 60 of the project's entries with the bucket's week day and
\* of no other entry; 09:00:00 to 11:30:00 on a Sunday puts 2.5 into Sun and
\* leaves the other buckets 0.
C5_OneBucket ==
    pc = "done" =>
        \A i \in 1..Len(agg) :
            /\ \A j \in 1..Len(FetchedOf(i)) :
                  \E k \in 1..Len(agg[i].hours) :
                      agg[i].hours[k].key = FetchedOf(i)[j].week_day
            /\ \A k \in 1..Len(agg[i].hours) :
                  agg[i].hours[k].value
                      = SumOfBucket(FetchedOf(i), agg[i].hours[k].key, F64Zero)
            /\ IsHalfPastEleven(FetchedOf(i)) =>
                  /\ agg[i].hours[1].key = "Sun"
                  /\ agg[i].hours[1].value = TwoAndAHalf
                  /\ \A k \in 2..Len(agg[i].hours) : agg[i].hours[k].value = F64Zero

\* A report is done whose project has the one entry of two and a half hours,
\* and another whose entry ends in the middle of a minute.
C5_Witness ==
    /\ pc = "done"
    /\ \E i \in 1..Len(agg) :
          /\ IsHalfPastEleven(FetchedOf(i))
          /\ agg[i].hours[1].value = TwoAndAHalf
    /\ \E i \in 1..Len(agg) : \E j \in 1..Len(FetchedOf(i)) :
          SecondsOf(FetchedOf(i)[j]) % 60 # 0

\* The entries of es in the order p.
Permuted(es, p) == [j \in 1..Len(es) |-> es[p[j]]]

\* The total of a week day in the hours of a project; none is 0.0.
TotalOf(hours, label) ==
    IF \E k \in 1..Len(hours) : hours[k].key = label
    THEN hours[CHOOSE k \in 1..Len(hours) : hours[k].key = label].value
    ELSE F64Zero

\* Two maps of hours give every week day the same total.
SameTotals(h1, h2) ==
    \A label \in {h1[k].key : k \in 1..Len(h1)} \cup {h2[k].key : k \in 1..Len(h2)} :
        TotalOf(h1, label) = TotalOf(h2, label)

\* No week day has more than two of the entries of es.
AtMostTwoADay(es) ==
    \A j \in 1..Len(es) :
        Cardinality({k \in 1..Len(es) : es[k].week_day = es[j].week_day}) <= 2

\* C6 (SpecReport), as amended: when no (project, week day) bucket gets more
\* than two entries, the totals of a project are the same for every order of
\* its entries.
C6_OrderOfTwo ==
    pc = "done" =>
        \A i \in 1..Len(agg) :
            AtMostTwoADay(FetchedOf(i)) =>
                \A p \in Orders(1..Len(FetchedOf(i))) :
                    SameTotals(aggregate_project(agg[i].project,
                                                 Permuted(FetchedOf(i), p)).hours,
                               agg[i].hours)

\* C6 as stated: the totals of a project are the same for every order of its
\* entries.
C6_AsStated ==
    pc = "done" =>
        \A i \in 1..Len(agg) :
            \A p \in Orders(1..Len(FetchedOf(i))) :
                SameTotals(aggregate_project(agg[i].project,
                                             Permuted(FetchedOf(i), p)).hours,
                           agg[i].hours)

\* A report is done with two entries of different length in one bucket.
C6_Witness ==
    /\ pc = "done"
    /\ \E i \in 1..Len(agg) :
          /\ Len(FetchedOf(i)) = 2
          /\ FetchedOf(i)[1].week_day = FetchedOf(i)[2].week_day
          /\ WholeMinutes(FetchedOf(i)[1]) # WholeMinutes(FetchedOf(i)[2])

\* The table has a row of the kind made in the turn of the project.
HasRow(kind, project) ==
    \E k \in 1..Len(table) : table[k].kind = kind /\ table[k].owner = project

\* One of the totals is greater than 0.
SomePositive(hours) ==
    \E k \in 1..Len(hours) : ~hours[k].value.neg /\ hours[k].value.mag # << >>

\* One of the memos is not empty.
SomeMemo(memos) == \E k \in 1..Len(memos) : memos[k].value # << >>

\* C7 (SpecReport) as stated: the table has an hour row for a project if and
\* only if one of the project's week day totals is greater than 0.
C7_AsStated ==
    pc = "done" =>
        \A i \in 1..Len(agg) :
            HasRow("hour", agg[i].project) <=> SomePositive(agg[i].hours)

\* The cli has printed an hour row for a project none of whose totals is
\* greater than 0.
C7_Witness ==
    /\ pc = "done"
    /\ report.variant = "cli"
    /\ \E i \in 1..Len(agg) :
          /\ ~SomePositive(agg[i].hours)
          /\ HasRow("hour", agg[i].project)

\* C8 (SpecReport) as stated: the table has a memo row for a project exactly
\* when memos are asked for and one of the project's memos is not empty, and
\* the row before a memo row is the hour row of the same project.
C8_AsStated ==
    pc = "done" =>
        /\ \A i \in 1..Len(agg) :
              HasRow("memo", agg[i].project)
                  <=> (report.with_memos /\ SomeMemo(agg[i].memos))
        /\ \A k \in 1..Len(table) :
              table[k].kind = "memo" =>
                  /\ k > 1
                  /\ table[k - 1].kind = "hour"
                  /\ table[k - 1].owner = table[k].owner

\* The backend cli has printed a memo row right after the header.
C8_Witness ==
    /\ pc = "done"
    /\ report.variant = "backend"
    /\ Len(table) >= 2
    /\ table[2].kind = "memo"

\* The bytes of a memo are all ASCII.
IsAscii(bytes) == \A k \in 1..Len(bytes) : bytes[k] < 128

\* "; " and "\n"
Terminator == << 59, 32, 10 >>

\* C9 (SpecMemo): format_memo(memo, W) returns the bytes of the memo in chunks of
\* W, a newline after every chunk of W bytes and none after a shorter last
\* one, then "; \n": the byte k of the memo is the byte k + (k - 1) \div W of the
\* result, every byte W + 1 of the result up to the last full chunk is a
\* newline, and the last three are "; \n".  A memo of W bytes gives itself, a
\* newline and "; \n", an empty memo "; \n".  (The call fails only when a chunk
\* is not UTF-8 by itself, which no ASCII memo has.)
C9_MemoWrapping ==
    memo_call # NoMemoCall =>
        LET memo == memo_call.memo
            W    == memo_call.width
            out  == memo_call.ret.text
            n    == Len(memo_call.memo)
        IN  /\ IsAscii(memo) => memo_call.ret.ok
            /\ memo_call.ret.ok =>
                  /\ Len(out) = n + (n \div W) + 3
                  /\ \A k \in 1..n : out[k + ((k - 1) \div W)] = memo[k]
                  /\ \A j \in 1..(n \div W) : out[j * (W + 1)] = 10
                  /\ SubSeq(out, Len(out) - 2, Len(out)) = Terminator
                  /\ n = W => out = memo \o << 10 >> \o Terminator
                  /\ n = 0 => out = Terminator

\* format_memo has returned for a memo of exactly MAX_WIDTH bytes, and the
\* result is longer than the memo by a newline and the terminator.
C9_Witness ==
    /\ memo_call # NoMemoCall
    /\ memo_call.width = MAX_WIDTH
    /\ Len(memo_call.memo) = MAX_WIDTH
    /\ memo_call.ret.ok
    /\ Len(memo_call.ret.text) = MAX_WIDTH + 4

\* All the entries the report has, project by project.
AllFetched ==
    IF report.variant = "cli" THEN cli_entries
    ELSE Concat([i \in 1..Len(project_entries) |-> project_entries[i].entries])

\* What the scenario says of an entry.
Stated(e) == [code |-> e.code, start |-> e.start, stop |-> e.stop, week_day |-> e.week_day]

\* The report is done, without memos, on the two entries of the scenario: code
\* "20-008", 2024-01-07 09:00:00-11:00:00 (Sun) and 2024-01-08 09:00:00-10:00:00
\* (Mon).
ScenarioDone ==
    /\ pc = "done"
    /\ ~report.with_memos
    /\ Len(AllFetched) = 2
    /\ {Stated(AllFetched[j]) : j \in 1..2} = {Stated(SundayEntry), Stated(MondayEntry)}

\* The rows of agg that have an entry.
RowsWithEntries == {i \in 1..Len(agg) : FetchedOf(i) # << >>}

\* The digits "0", "1", "2" and the texts "0.0", "1.0", "2.0".
Digit(n) == << 48 + n >>
PointZero(n) == << 48 + n, 46, 48 >>

\* C10 (SpecReport), as amended: on the two entries of the scenario the one
\* row of "20-008" has Sun = 2, Mon = 1 and 0 on the other days, and the table
\* without memos is the header and the one row
\* ["20-008", "2", "1", "0", "0", "0", "0", "0"].
C10_Scenario ==
    ScenarioDone =>
        /\ \E i \in 1..Len(agg) :
              /\ RowsWithEntries = {i}
              /\ agg[i].project = "20-008"
              /\ [k \in 1..Len(agg[i].hours) |-> agg[i].hours[k].key] = WeekdayLabels
              /\ [k \in 1..Len(agg[i].hours) |-> agg[i].hours[k].value]
                     = << WholeHours(2), WholeHours(1), F64Zero, F64Zero, F64Zero,
                          F64Zero, F64Zero >>
        /\ Len(table) = 2
        /\ table[1] = header_row
        /\ table[2].kind = "hour"
        /\ table[2].first = "20-008"
        /\ table[2].cells = << Digit(2), Digit(1), Digit(0), Digit(0), Digit(0),
                               Digit(0), Digit(0) >>

\* C10 as stated: the one row is
\* ["20-008", "2.0", "0.0", "1.0", "0.0", "0.0", "0.0", "0.0"].
C10_AsStated ==
    ScenarioDone =>
        /\ Len(table) = 2
        /\ table[1] = header_row
        /\ table[2].first = "20-008"
        /\ table[2].cells = << PointZero(2), PointZero(0), PointZero(1), PointZero(0),
                               PointZero(0), PointZero(0), PointZero(0) >>

\* The report of the scenario is done and has printed two rows.
C10_Witness == ScenarioDone /\ Len(table) = 2

\* The entries of the week the report is about: what the server answered to the
\* cli; for the backend cli, which asks project by project, the stored entries
\* of the seven days.
WeekEntries ==
    IF report.variant = "cli" THEN cli_entries
    ELSE InWindow(entries_table, report.week_beginning)

\* How many aggregated rows (hours and memos of one turn of the loop) a code has.
RowsOf(code) == Cardinality({i \in 1..Len(agg) : agg[i].project = code})

\* C11 (SpecProjects) as stated: the aggregation has exactly one row for every
\* code that has an entry in the week, and none for any other code.
C11_AsStated ==
    pc = "done" =>
        \A code \in Codes :
            RowsOf(code) = IF code \in CodesOf(WeekEntries) THEN 1 ELSE 0

\* The backend cli has printed the report of a week in which a code has an
\* entry and no row, because no project of the reference table has the code.
C11_Witness ==
    /\ pc = "done"
    /\ report.variant = "backend"
    /\ \E j \in 1..Len(WeekEntries) :
          /\ RowsOf(WeekEntries[j].code) = 0
          /\ \A k \in 1..Len(report.projects) :
                report.projects[k].code # WeekEntries[j].code
\* The text of a week day label, as the header has it.
LabelText ==
    [l \in {WeekdayLabels[k] : k \in 1..7} |->
        CASE l = "Sun" -> Text_Sun [] l = "Mon" -> Text_Mon [] l = "Tue" -> Text_Tue
          [] l = "Wed" -> Text_Wed [] l = "Thu" -> Text_Thu [] l = "Fri" -> Text_Fri
          [] OTHER -> Text_Sat]

\* The place of a label in the week that begins on Sunday; 8 for any other text.
PlaceOf(label) ==
    IF \E k \in 1..7 : WeekdayLabels[k] = label
    THEN CHOOSE k \in 1..7 : WeekdayLabels[k] = label
    ELSE 8

KeysOf(map) == [k \in 1..Len(map) |-> map[k].key]

\* The seven first keys of a map are the week days from Sunday to Saturday, and
\* no later key is a week day.
WeekFirst(map) ==
    /\ Len(map) >= 7
    /\ SubSeq(KeysOf(map), 1, 7) = << "Sun", "Mon", "Tue", "Wed", "Thu", "Fri", "Sat" >>
    /\ \A k \in 8..Len(map) : PlaceOf(map[k].key) = 8

RECURSIVE MemoOfBucket(_, _)
\* The wrapped memos of the entries of es whose week day is label, one after
\* the other.
MemoOfBucket(es, label) ==
    IF es = << >> THEN << >>
    ELSE (IF Head(es).week_day = label THEN format_memo(Head(es).memo, MAX_WIDTH).text
          ELSE << >>) \o MemoOfBucket(Tail(es), label)

\* The cells of a row of hours are seven or more, and cell k is the total of
\* the k-th day of the week among the entries es.
HoursInWeekOrder(cells, es) ==
    /\ Len(cells) >= 7
    /\ \A k \in 1..7 :
          cells[k] = F64ToString(SumOfBucket(es, WeekdayLabels[k], F64Zero))

MemosInWeekOrder(cells, es) ==
    /\ Len(cells) >= 7
    /\ \A k \in 1..7 : cells[k] = MemoOfBucket(es, WeekdayLabels[k])

\* C12 (SpecProjects): in every report the header names the days Sun, Mon, Tue,
\* Wed, Thu, Fri, Sat in this order, the hours and the memos of every project
\* are kept in this order, and cell k of every row printed holds the value of
\* day k, in whatever order the entries were stored and read.  (A week day text
\* that is none of the seven gets a cell of its own after Sat.)
C12_FixedOrder ==
    pc = "done" =>
        /\ \A k \in 1..7 : table[1].cells[k] = LabelText[WeekdayLabels[k]]
        /\ \A i \in 1..Len(agg) : WeekFirst(agg[i].hours) /\ WeekFirst(agg[i].memos)
        /\ \A r \in 2..Len(table) :
              \E i \in 1..Len(agg) :
                  /\ agg[i].project = table[r].owner
                  /\ table[r].kind = "hour" => HoursInWeekOrder(table[r].cells, FetchedOf(i))
                  /\ table[r].kind = "memo" => MemosInWeekOrder(table[r].cells, FetchedOf(i))

\* A report has printed the row of a project whose entry of a Monday was read
\* before its entry of the Sunday.
C12_Witness ==
    /\ pc = "done"
    /\ \E i \in 1..Len(agg) :
          /\ HasRow("hour", agg[i].project)
          /\ \E j1, j2 \in 1..Len(FetchedOf(i)) :
                /\ j1 < j2
                /\ PlaceOf(FetchedOf(i)[j1].week_day) = 2
                /\ PlaceOf(FetchedOf(i)[j2].week_day) = 1

\* A chunk of MAX_WIDTH bytes of the memo begins inside a character.
SplitsCharacter(memo) ==
    \E k \in 2..Len(memo) :
        (k - 1) % MAX_WIDTH = 0 /\ memo[k] >= 128 /\ memo[k] <= 191

\* The report cannot take the entry: a time that does not parse, or a memo one
\* of whose chunks is not text.
Unreadable(e) ==
    \/ ~parse_from_str(e.start).ok
    \/ ~parse_from_str(e.stop).ok
    \/ SplitsCharacter(e.memo)

\* C13 (SpecProjects): a report prints its table only at its end; when one of
\* the entries it has read has a start or a stop that does not parse, or a memo
\* with a chunk that is not text, the report fails and has printed no table,
\* and it fails for no other reason.
C13_Abort ==
    /\ pc # "done" => table = << >>
    /\ pc \in {"done", "failed"} =>
          ((\E j \in 1..Len(AllFetched) : Unreadable(AllFetched[j])) <=> pc = "failed")

\* The backend cli has failed on an entry of its second project after the
\* entries of its first project were all read and counted.
C13_Witness ==
    /\ pc = "failed"
    /\ report.variant = "backend"
    /\ table = << >>
    /\ Len(project_entries) >= 2
    /\ project_entries[1].entries # << >>
    /\ \A j \in 1..Len(project_entries[1].entries) :
          ~Unreadable(project_entries[1].entries[j])
    /\ \E j \in 1..Len(project_entries[2].entries) :
          Unreadable(project_entries[2].entries[j])
\* An entry as the row with the id.
Stored(entry, id) == [entry EXCEPT !.id = id]

\* The row of the id is among the rows.
HasId(rows, id) == \E i \in 1..Len(rows) : rows[i].id = id

\* The rows without the one at position i.
Without(rows, i) == SubSeq(rows, 1, i - 1) \o SubSeq(rows, i + 1, Len(rows))

\* The row a call of write_entry has written is still stored as written.
OwnRowStored ==
    \E i \in 1..Len(db_call.after) :
        db_call.after[i] = Stored(db_call.entry, db_call.id)

\* C14 (SpecStore) as stated: write_entry(e) returns an id by which read_entry
\* finds e with that id, whatever id e carried, and the first entry of an empty
\* table gets the id 1.
C14_AsStated ==
    (db_call.op = "write_entry" /\ OwnRowStored) =>
        /\ read_entry(db_call.after, db_call.rowid)
               = [ok |-> TRUE, rows |-> << Stored(db_call.entry, db_call.rowid) >>]
        /\ db_call.first => db_call.rowid = 1

\* write_entry has returned the id of another client's entry, while its own
\* entry is stored under the id its INSERT gave it.
C14_Witness ==
    /\ db_call.op = "write_entry"
    /\ OwnRowStored
    /\ db_call.rowid # db_call.id
    /\ HasId(db_call.after, db_call.rowid)

\* C15 (SpecStore): delete_last_entry succeeds; on an empty table it changes
\* nothing; otherwise the row with the greatest id is gone, and every other
\* row is stored as before, in its place, and read by its id.
C15_DeleteLast ==
    db_call.op = "POST /delete_last_entry" =>
        /\ db_call.ok /\ db_call.status = 200
        /\ db_call.before = << >> => db_call.after = << >>
        /\ db_call.before # << >> =>
              \E i \in 1..Len(db_call.before) :
                  /\ \A j \in 1..Len(db_call.before) :
                        db_call.before[j].id <= db_call.before[i].id
                  /\ db_call.after = Without(db_call.before, i)
                  /\ ~read_entry(db_call.after, db_call.before[i].id).ok
                  /\ \A j \in 1..Len(db_call.before) :
                        j # i => read_entry(db_call.after, db_call.before[j].id)
                                     = [ok |-> TRUE, rows |-> << db_call.before[j] >>]

\* delete_last_entry has taken the second of two rows and left the first.
C15_Witness ==
    /\ db_call.op = "POST /delete_last_entry"
    /\ Len(db_call.before) = 2
    /\ db_call.after = << db_call.before[1] >>

\* C16 (SpecStore): on a table that is not empty, whatever calls of write_entry,
\* delete_entry and delete_last_entry came before, read_last_entry returns the
\* row written last among those stored, which is the one with the greatest id.
C16_LastEntry ==
    (db_call.op = "GET /last_entry" /\ db_call.before # << >>) =>
        /\ db_call.ok /\ db_call.status = 200
        /\ db_call.rows = << db_call.before[Len(db_call.before)] >>
        /\ \A j \in 1..Len(db_call.before) : db_call.before[j].id <= db_call.rows[1].id

\* read_last_entry has answered on a table whose first row was deleted and
\* that was written to again after.
C16_Witness ==
    /\ db_call.op = "GET /last_entry"
    /\ Len(db_call.before) = 2
    /\ db_call.before[1].id = 2
    /\ db_call.rows = << db_call.before[2] >>

\* a <= b as SQLite compares two texts: byte by byte, a prefix being less.
LexLeq(a, b) ==
    \E n \in 0..Len(a) :
        /\ n <= Len(b)
        /\ \A i \in 1..n : a[i] = b[i]
        /\ \/ n = Len(a)
           \/ n < Len(b) /\ a[n + 1] < b[n + 1]

\* The start of the row lies between the bounds of the call, both included.
Between(row) == LexLeq(db_call.start_date, row.start) /\ LexLeq(row.start, db_call.end_date)

\* C17 (SpecStore): read_entries_between(start_date, end_date) returns every
\* stored row whose start is, as text, at or after start_date and at or before
\* end_date, returns no other row, and returns them by ascending id.
C17_Between ==
    db_call.op = "GET /entries_between" =>
        /\ \A k \in 1..Len(db_call.rows) :
              /\ Between(db_call.rows[k])
              /\ \E j \in 1..Len(db_call.before) : db_call.before[j] = db_call.rows[k]
        /\ \A j \in 1..Len(db_call.before) :
              Between(db_call.before[j]) =>
                  \E k \in 1..Len(db_call.rows) : db_call.rows[k] = db_call.before[j]
        /\ \A k1, k2 \in 1..Len(db_call.rows) :
              k1 < k2 => db_call.rows[k1].id < db_call.rows[k2].id

\* Of two rows, one starts exactly at start_date and is returned, the other
\* starts after end_date and is not.
C17_Witness ==
    /\ db_call.op = "GET /entries_between"
    /\ Len(db_call.before) = 2
    /\ Len(db_call.rows) = 1
    /\ db_call.rows[1].start = db_call.start_date
    /\ \E j \in 1..2 : ~LexLeq(db_call.before[j].start, db_call.end_date)

\* C18 (SpecStore) as stated: POST /delete_entry/{id} for a stored id answers
\* 200 with the body "Entry deleted.", and after it read_entry(id) fails and
\* GET /entry/{id} answers 400 "Invalid id".
C18_AsStated ==
    (db_call.op = "POST /delete_entry" /\ HasId(db_call.before, db_call.id)) =>
        /\ db_call.status = 200
        /\ db_call.body = "Entry deleted."
        /\ ~read_entry(db_call.after, db_call.id).ok
        /\ read_entry_reply(read_entry(db_call.after, db_call.id))
               = [status |-> 400, body |-> "Invalid id"]

\* The handler of src/src/api.rs has deleted a stored entry and answered 200
\* with an empty body.
C18_Witness ==
    /\ db_call.op = "POST /delete_entry"
    /\ db_call.server = "api"
    /\ HasId(db_call.before, db_call.id)
    /\ ~HasId(db_call.after, db_call.id)
    /\ db_call.status = 200
    /\ db_call.body = ""

\* C19 (SpecStore): update_entry(e) with the id of a stored row puts e in the
\* place of that row, so that read_entry returns e, and leaves every other row
\* as it was; with an id that no row has, or none, the table stays as it was.
C19_Update ==
    db_call.op = "POST /update_entry" =>
        /\ db_call.ok /\ db_call.status = 200
        /\ Len(db_call.after) = Len(db_call.before)
        /\ \A j \in 1..Len(db_call.before) :
              db_call.after[j] = IF db_call.before[j].id = db_call.entry.id
                                 THEN db_call.entry ELSE db_call.before[j]
        /\ HasId(db_call.before, db_call.entry.id) =>
              read_entry(db_call.after, db_call.entry.id)
                  = [ok |-> TRUE, rows |-> << db_call.entry >>]
        /\ ~HasId(db_call.before, db_call.entry.id) => db_call.after = db_call.before

\* update_entry has changed the first of two rows and left the second.
C19_Witness ==
    /\ db_call.op = "POST /update_entry"
    /\ Len(db_call.before) = 2
    /\ db_call.before[1].id = db_call.entry.id
    /\ db_call.before[1] # db_call.entry
    /\ db_call.after = << db_call.entry, db_call.before[2] >>
\* The table printed from these aggregates, nothing when one has failed.
PrintedTable(aggs, with_memos) ==
    IF AllOk(aggs)
    THEN << header_row >>
         \o Concat([i \in 1..Len(aggs) |-> backend_rows(aggs[i], with_memos)])
    ELSE << >>

\* The table of the running backend report, were every SELECT of its loop
\* answered from `rows`.
BackendTableOf(rows) ==
    PrintedTable([i \in 1..Len(report.projects) |->
                     aggregate_project(report.projects[i].code,
                         select_project_entries(rows, report.projects[i].code,
                                                report.start_date, report.end_date))],
                 report.with_memos)

\* The printed table is the report of the entries as they stood at one instant
\* since the report began.
OneSnapshot ==
    \E rows \in history :
        IF report.variant = "cli"
        THEN cli_entries = read_entries_between(rows, report.start_date, report.end_date)
        ELSE table = BackendTableOf(rows)

\* C20 (Spec) as stated: a finished report, whatever was written while it ran,
\* shows the table of the entries as they stood at one instant, and the week
\* it names is the week it fetched.
C20_AsStated ==
    pc = "done" =>
        /\ OneSnapshot
        /\ report.variant = "backend" => report.printed_beginning = report.week_beginning

\* The backend cli has printed, under the week it fetched, a table that the
\* entries gave at no instant of its run.
C20_Witness ==
    /\ pc = "done"
    /\ report.variant = "backend"
    /\ report.printed_beginning = report.week_beginning
    /\ ~OneSnapshot
\* C21 (SpecCatalog) as stated: no two stored projects have the same code.
C21_AsStated ==
    \A i, j \in 1..Len(projects_table) :
        i # j => projects_table[i].code # projects_table[j].code

\* Two projects are stored under one code.
DuplicateCode ==
    \E i, j \in 1..Len(projects_table) :
        i # j /\ projects_table[i].code = projects_table[j].code

\* POST /project has stored a project under the code of a stored project.
C21_Witness ==
    /\ db_call.op = "POST /project"
    /\ Len(db_call.before) = 1
    /\ Len(db_call.after) = 2
    /\ db_call.after[2].code = db_call.before[1].code
\* The table the cli prints from these aggregates, nothing when one has failed.
CliPrinted(aggs, with_memos) ==
    IF AllOk(aggs)
    THEN << header_row >>
         \o Concat([i \in 1..Len(aggs) |-> cli_rows(aggs[i], i - 1, with_memos)])
    ELSE << >>

\* The table of the cli for the entries, were the set of their codes iterated
\* in this order.
CliTableOf(entries, order, with_memos) ==
    CliPrinted([i \in 1..Len(order) |->
                   aggregate_project(order[i],
                       SelectSeq(entries, LAMBDA e : e.code = order[i]))],
               with_memos)

\* C22 (SpecReport) as stated: the table the cli prints is a function of the
\* entries fetched: whatever order the set of codes is iterated in, the rows
\* and their colours are the ones printed.
C22_AsStated ==
    (pc = "done" /\ report.variant = "cli") =>
        \A order \in Orders(CodesOf(cli_entries)) :
            table = CliTableOf(cli_entries, order, report.with_memos)

\* The cli has printed the rows of two projects, and another run on the same
\* entries prints them the other way round.
C22_Witness ==
    /\ pc = "done"
    /\ report.variant = "cli"
    /\ Cardinality(CodesOf(cli_entries)) = 2
    /\ \E order \in Orders(CodesOf(cli_entries)) :
          /\ table # CliTableOf(cli_entries, order, report.with_memos)
          /\ Len(table) = Len(CliTableOf(cli_entries, order, report.with_memos))
\* The wrapped memo of an entry: its block in a memo cell.
BlockOf(e) == format_memo(e.memo, MAX_WIDTH).text

\* The blocks of the entries, one after the other.
BlocksOf(es) == Concat([j \in 1..Len(es) |-> BlockOf(es[j])])

\* The entries the report has read for the project of agg[i] under the k-th
\* week day, in the order read.
FetchedOn(i, k) == SelectSeq(FetchedOf(i), LAMBDA e : e.week_day = WeekdayLabels[k])

\* C23 (SpecReport): in a row of memos, the cell of a week day is the wrapped
\* memos, each ending in "; " and a newline, of the entries the report has read
\* for the row's project with that week day, in the order read, and nothing
\* else.
C23_MemoCells ==
    pc = "done" =>
        \A r \in 2..Len(table) :
            table[r].kind = "memo" =>
                \E i \in 1..Len(agg) :
                    /\ agg[i].project = table[r].owner
                    /\ \A k \in 1..7 : table[r].cells[k] = BlocksOf(FetchedOn(i, k))
                    /\ \A j \in 1..Len(FetchedOf(i)) :
                          SubSeq(BlockOf(FetchedOf(i)[j]),
                                 Len(BlockOf(FetchedOf(i)[j])) - 2,
                                 Len(BlockOf(FetchedOf(i)[j]))) = Terminator

\* A row of memos has been printed for a project with two entries of one week
\* day, their memos not the same, and an entry of another project.
C23_Witness ==
    /\ pc = "done"
    /\ Len(agg) = 2
    /\ \E r \in 2..Len(table), i \in 1..Len(agg), k \in 1..7 :
          /\ table[r].kind = "memo"
          /\ table[r].owner = agg[i].project
          /\ Len(FetchedOn(i, k)) = 2
          /\ FetchedOn(i, k)[1].memo # FetchedOn(i, k)[2].memo
          /\ table[r].cells[k] = BlockOf(FetchedOn(i, k)[1]) \o BlockOf(FetchedOn(i, k)[2])
\* C24 (SpecStore) as stated: whatever other calls of write_entry run at the
\* same time, the id a call returns is the id of the row it has inserted.
C24_AsStated == db_call.op = "write_entry" => db_call.rowid = db_call.id

\* A call of write_entry has returned the id of the row of another call that
\* has inserted and not yet returned.
C24_Witness ==
    /\ db_call.op = "write_entry"
    /\ \E c \in Clients :
          /\ c # db_call.client
          /\ writers[c].phase = "inserted"
          /\ writers[c].rowid = db_call.rowid
          /\ writers[c].rowid # db_call.id

\* A timestamp that DATE_FORMAT parses and that is written as the format
\* writes it: four digits of year, two of each other field, hour below 24.
Canonical(t) ==
    LET p == parse_from_str(t) IN
    /\ p.ok
    /\ t = FormatDateTime(p.date, p.secs \div 3600, (p.secs \div 60) % 60, p.secs % 60)

\* C25 (SpecEntryCmd) as stated: an entry the cli has stored from times that
\* parse_entry_time accepted has a canonical start and stop, and the
\* aggregation of a weekly report over it does not fail on a timestamp.
C25_AsStated ==
    entry_cmd.phase = "posted" =>
        /\ Canonical(entry_cmd.entry.start)
        /\ Canonical(entry_cmd.entry.stop)
        /\ aggregate_project(entry_cmd.entry.code, << entry_cmd.entry >>).status = "ok"

\* The cli has stored an entry whose stop is minute 75 of hour 10, and the
\* aggregation over the stored rows panics.
C25_Witness ==
    /\ entry_cmd.phase = "posted"
    /\ \E i \in 1..Len(entries_table) : entries_table[i] =
            [entry_cmd.entry EXCEPT !.id = entries_table[i].id]
    /\ Canonical(entry_cmd.entry.start)
    /\ entry_cmd.entry.stop = FormatDateTime(entry_cmd.date, 10, 75, 0)
    /\ aggregate_project(Code1, entries_table).status = "panic"

\* C26 (SpecProjects) as stated: every hour row and every memo row of the
\* table has eight cells, the project and one for each day of Sun..Sat,
\* whatever the week_day labels of the stored entries are.
C26_AsStated ==
    pc = "done" =>
        \A r \in 1..Len(table) :
            table[r].kind \in {"hour", "memo"} => Len(table[r].cells) = 7

\* A report has printed a row of nine cells for a project that has an entry
\* whose week_day is none of the seven labels: a ninth column under a header
\* of eight.
C26_Witness ==
    /\ pc = "done"
    /\ table[1] = header_row
    /\ \E r \in 2..Len(table) :
          /\ Len(table[r].cells) = 8
          /\ \E j \in 1..Len(WeekEntries) :
                /\ WeekEntries[j].code = table[r].owner
                /\ PlaceOf(WeekEntries[j].week_day) = 8

RECURSIVE MinutesOf(_)
\* The whole minutes of the entries of es, added up.
MinutesOf(es) == IF es = << >> THEN 0 ELSE WholeMinutes(Head(es)) + MinutesOf(Tail(es))

RECURSIVE MinutesFetched(_)
\* The whole minutes of all the entries fetched for the rows from i on.
MinutesFetched(i) ==
    IF i > Len(agg) THEN 0 ELSE MinutesOf(FetchedOf(i)) + MinutesFetched(i + 1)

RECURSIVE SumOfTotals(_, _, _)
\* acc plus, one by one, the totals of hours from its k-th on.
SumOfTotals(hours, k, acc) ==
    IF k > Len(hours) THEN acc
    ELSE SumOfTotals(hours, k + 1, F64Add(acc, hours[k].value))

RECURSIVE GrandTotal(_, _)
\* acc plus the totals of all week days of the rows from i on.
GrandTotal(i, acc) ==
    IF i > Len(agg) THEN acc
    ELSE GrandTotal(i + 1, SumOfTotals(agg[i].hours, 1, acc))

\* Every entry fetched lasts a whole number of quarters of an hour, so that
\* its hours and every sum of them are f64 values without rounding.
WholeQuarters ==
    \A i \in 1..Len(agg) : \A j \in 1..Len(FetchedOf(i)) :
        /\ SecondsOf(FetchedOf(i)[j]) % 60 = 0
        /\ WholeMinutes(FetchedOf(i)[j]) % 15 = 0

\* C27 (SpecReport), as amended: when every entry fetched lasts a whole number
\* of quarters of an hour, negative and zero included, the totals of all week
\* days of all rows add up to the minutes of all entries fetched, / 60.
C27_Conservation ==
    (pc = "done" /\ WholeQuarters) =>
        GrandTotal(1, F64Zero) = F64Div60(MinutesFetched(1))

\* C27 as stated: the totals of all week days of all rows add up to the
\* minutes of all entries fetched, / 60.
C27_AsStated ==
    pc = "done" => GrandTotal(1, F64Zero) = F64Div60(MinutesFetched(1))

\* A report is done on entries of whole quarters of an hour of two projects,
\* one of them ending before it starts, with a total that is not 0.
C27_Witness ==
    /\ pc = "done"
    /\ WholeQuarters
    /\ Len(agg) = 2
    /\ \E i \in 1..Len(agg) : \E j \in 1..Len(FetchedOf(i)) :
          WholeMinutes(FetchedOf(i)[j]) < 0
    /\ \E i \in 1..Len(agg) : Len(FetchedOf(i)) = 2
    /\ MinutesFetched(1) > 0

\* The window a program computes on `date` for the week `num_weeks` ago.
WindowOf(variant, date, num_weeks) ==
    [variant |-> variant,
     week_beginning |-> week_beginning_of(date, num_weeks),
     week_ending |-> IF variant = "cli"
                     THEN cli_week_ending(week_beginning_of(date, num_weeks))
                     ELSE backend_week_ending(week_beginning_of(date, num_weeks))]

\* The window of the week before that of the report, computed on the same day.
WeekBefore == WindowOf(report.variant, report.today, report.num_weeks + 1)

\* The day is one of the window: from week_beginning to week_ending, which the
\* cli's query includes and the backend's excludes.
Covers(w, day) ==
    /\ day >= w.week_beginning
    /\ IF w.variant = "cli" THEN day <= w.week_ending ELSE day < w.week_ending

Labelled(e) == parse_from_str(e.start).ok => e.week_day = weekday(StartDate(e))

\* C29 (SpecFront) as stated: every entry that the cli or the web front end
\* submits, and every entry stored from them, has the week_day of the date
\* of its start.
C29_AsStated ==
    /\ app.ft.kind = "post_entry" => Labelled(app.ft.body)
    /\ entry_cmd.phase = "posted" => Labelled(entry_cmd.entry)
    /\ \A i \in 1..Len(entries_table) : Labelled(entries_table[i])

\* The front end has posted, and the server has stored, an entry that starts
\* on a Monday and is labelled "Fri".
C29_Witness ==
    /\ app.ft.kind = "post_entry"
    /\ ~app.ft.active
    /\ app.message = "Message"
    /\ app.ft.body.start = FormatDateTime(Sunday + 1, 9, 0, 0)
    /\ app.ft.body.week_day = "Fri"
    /\ \E i \in 1..Len(entries_table) :
          entries_table[i] = [app.ft.body EXCEPT !.id = entries_table[i].id]

\* The fetch started by FetchData is outstanding: its task is held and its
\* response has not been processed.
FetchOutstanding == app.ft = Task("get_hello", NoEntry)

\* C30 (SpecFront) as stated: `fetching` is true only while a fetch started by
\* FetchData is outstanding; once its response has been processed, as
\* FetchReady or as Failure, `fetching` is false.
C30_AsStated == app.fetching => FetchOutstanding

\* The response of the fetch was no success and has been processed as
\* Failure; `fetching` is still true.
C30_Witness ==
    /\ app.fetching
    /\ app.ft.kind = "get_hello"
    /\ ~app.ft.active
    /\ app.message = "Failed!"
    /\ ~app.panicked
=============================================================================
